---- MODULE Spec2Model ----
(***************************************************************************)
(* Behavioural model of src/fileshaare.py: the file registry (groups,      *)
(* files, links in PostgreSQL), the upload path behind upload_semaphore,   *)
(* single-file / group deletion, and the issue, resolution and revocation  *)
(* of share links.                                                         *)
(*                                                                         *)
(* Every handler is a coroutine; one step of the model is the code between *)
(* two awaits that touch shared state (the semaphore, a SQL statement, a   *)
(* call to the storage channel).  SQL statements run under PostgreSQL's    *)
(* default READ COMMITTED isolation (asyncpg conn.transaction() with no    *)
(* isolation argument): a statement reads the rows committed when it       *)
(* starts, and a write that meets a row written by a transaction still in  *)
(* flight waits for that transaction (modelled as a guard).  The last      *)
(* statement of a transaction and its COMMIT are one step: COMMIT never    *)
(* waits, and between the two no other session can see or overtake the     *)
(* writes.                                                                 *)
(*                                                                         *)
(* Opaque fresh identifiers (SERIAL ids, the message id returned by        *)
(* forward) are named after the task that obtained them.                   *)
(***************************************************************************)
EXTENDS Integers, FiniteSets, Sequences, TLC

VARIABLES
    groups,      \* committed rows of table groups
    group_seq,   \* last value of the sequence behind groups.id
    files,       \* committed rows of table files
    file_links,  \* committed rows of table file_links
    channel,     \* message ids present in the storage channel
    sem_value,   \* FileStoreBot.upload_semaphore._value
    floods,      \* rate-limit answers the storage channel may still give
    up,          \* _process_file_upload coroutines, by upload
    fd,          \* _perform_file_delete coroutines
    gd,          \* _perform_group_delete coroutines
    ln,          \* getlink_handler / getgrouplink_handler coroutines
    rs,          \* _handle_shared_link coroutines
    rv,          \* revoke_link_handler coroutines
    authorized_users, \* rows of table authorized_users
    bot_settings,     \* rows of table bot_settings, by key
    user_data,        \* context.user_data, by user
    tx,          \* file_handler coroutines started by a text message
    sr,          \* search_handler coroutines
    ad,          \* _handle_admin_callbacks coroutines of admin_toggle_caption
    lookup_raises \* whether the SELECT of is_user_authorized raises an exception

vars == <<groups, group_seq, files, file_links, channel, sem_value, floods, up, fd, gd, ln, rs, rv,
          authorized_users, bot_settings, user_data, tx, sr, ad, lookup_raises>>

----------------------------------------------------------------------------
(* Program constants and model bounds *)

UPLOAD_CONCURRENCY == 5

\* admission model: slots of the semaphore; there are two more uploads than
\* slots, and the storage channel gives as many rate-limit answers as there are
\* slots
GateSlots == 2

NULL == 0

Max(S) == CHOOSE x \in S : \A y \in S : y <= x

RECURSIVE SumSizes(_)
SumSizes(S) ==
    IF S = {} THEN 0
    ELSE LET r == CHOOSE x \in S : TRUE IN r.file_size + SumSizes(S \ {r})

----------------------------------------------------------------------------
(* Table queries *)

GroupIds == {g.id : g \in groups}

FilesOf(gid) == {f \in files : f.group_id = gid}

\* mutant of NextSerial: every file is given serial number 1
NextSerialFirst(gid) ==
    0 + 1

\* SELECT COALESCE(MAX(serial_number), 0) + 1 FROM files WHERE group_id = $1
NextSerial(gid) ==
    IF FilesOf(gid) = {} THEN 0 + 1
    ELSE Max({f.serial_number : f \in FilesOf(gid)}) + 1

\* rows an upload transaction has inserted and not yet committed
PendingInserts(self) ==
    {[group_id |-> up[u].group_id, serial_number |-> up[u].next_serial,
      unique_id |-> up[u].unique_id] : u \in {v \in DOMAIN up \ {self} : up[v].pc = "update"}}

\* file rows deleted by a _perform_file_delete transaction still in flight
PendingFileDeletes(self) ==
    {fd[d].file_data.id : d \in {e \in DOMAIN fd \ {self} : fd[e].pc = "update" /\ fd[e].deleted}}

----------------------------------------------------------------------------
(* Access control and caption settings: lines 37-39, 91-95, 123-134,       *)
(* 140-141, 182-221                                                        *)

\* ADMIN_IDS (line 37): the administrators the environment names
ADMIN_IDS == {3}

\* CUSTOM_CAPTION (line 39): the caption text the environment gives, a
\* sequence of characters
CUSTOM_CAPTION == <<"t", "0">>

\* a caption that is the file name alone
FileNameOnly == <<"file_name">>

\* the rows init_database leaves in authorized_users and bot_settings (lines
\* 123-134) once the administrators have added the users in listed
SeededUsers(listed) ==
    {[user_id |-> a, is_active |-> TRUE, caption_disabled |-> FALSE] : a \in ADMIN_IDS \cup listed}

SeededSettings == [caption_enabled |-> "1", custom_caption |-> CUSTOM_CAPTION]

is_admin(user_id) == user_id \in ADMIN_IDS

\* mutant of is_user_authorized: the row is not required to be active
is_user_authorized_any_row(user_id) ==
    \/ is_admin(user_id)
    \/ ~lookup_raises /\ \E r \in authorized_users : r.user_id = user_id

\* mutant of is_user_authorized: a lookup that raises lets the caller in
is_user_authorized_fail_open(user_id) ==
    \/ is_admin(user_id)
    \/ lookup_raises
    \/ \E r \in authorized_users : r.user_id = user_id /\ r.is_active

\* is_user_authorized (lines 213-221): an administrator is let in before the
\* database is asked; else SELECT is_active FROM authorized_users WHERE
\* user_id = $1 AND is_active = TRUE, and False when the lookup raises
is_user_authorized(user_id) ==
    \/ is_admin(user_id)
    \/ ~lookup_raises /\ \E r \in authorized_users : r.user_id = user_id /\ r.is_active

\* DB_POOL.acquire() or the fetchval of is_user_authorized starts or stops
\* raising (lines 216-221)
lookup_fault ==
    /\ lookup_raises' = ~lookup_raises
    /\ UNCHANGED <<groups, group_seq, files, file_links, channel, sem_value, floods, up, fd, gd,
                   ln, rs, rv, authorized_users, bot_settings, user_data, tx, sr, ad>>

\* get_caption_setting (lines 182-193)
get_caption_setting ==
    [caption_enabled |-> bot_settings.caption_enabled = "1",
     custom_caption |-> bot_settings.custom_caption]

\* get_file_caption (lines 195-211): the file name alone for a user whose row
\* has caption_disabled and when captions are off, else the file name
\* followed by the custom caption
get_file_caption(user_id) ==
    IF /\ ~is_admin(user_id)
       /\ \E r \in authorized_users : r.user_id = user_id /\ r.caption_disabled
    THEN FileNameOnly
    ELSE IF ~get_caption_setting.caption_enabled THEN FileNameOnly
    ELSE <<"file_name", get_caption_setting.custom_caption>>

\* the Telegram accounts that talk to the bot
Accounts == {1, 2} \cup ADMIN_IDS

\* context.user_data of a user who has pressed nothing; a key that is absent
\* reads as NULL or FALSE (upload_group_name is only echoed in answers and is
\* left out)
NoSession ==
    [awaiting_group_name |-> FALSE, awaiting_caption |-> FALSE,
     upload_group_id |-> NULL, is_bulk_upload |-> FALSE]

\* the access state after start-up, with the users in listed on the allow-list,
\* and no text message, search or caption toggle under way
InitAccess(listed) ==
    /\ authorized_users = SeededUsers(listed)
    /\ bot_settings = SeededSettings
    /\ lookup_raises = FALSE
    /\ user_data = [a \in Accounts |-> NoSession]
    /\ tx = <<>>
    /\ sr = <<>>
    /\ ad = <<>>

----------------------------------------------------------------------------
(* _process_file_upload: lines 691-733 *)

\* mutant of UniqueConflict: files.unique_id is not UNIQUE
UniqueConflictSerialOnly(a, b) ==
    a.group_id = b.group_id /\ a.serial_number = b.serial_number

\* the two UNIQUE constraints of table files
UniqueConflict(a, b) ==
    \/ a.unique_id = b.unique_id
    \/ a.group_id = b.group_id /\ a.serial_number = b.serial_number

\* mutant of ForeignKeyViolation: files.group_id is not a foreign key
ForeignKeyIgnored(group_id) ==
    FALSE

\* files.group_id REFERENCES groups(id) (line 110): an INSERT for a group row
\* that is gone raises ForeignKeyViolationError
ForeignKeyViolation(group_id) ==
    group_id \notin GroupIds

\* extract_file_data for a photo (lines 172-174): the file name is made of the
\* file type and the file_unique_id
PhotoName(unique_id) ==
    <<"p">> \o (IF unique_id \in 1..9
                THEN <<(<<"1", "2", "3", "4", "5", "6", "7", "8", "9">>)[unique_id]>>
                ELSE <<>>)

\* the row the INSERT of upload u writes
FileRow(u) ==
    [id |-> u, group_id |-> up[u].group_id, serial_number |-> up[u].next_serial,
     unique_id |-> up[u].unique_id, file_size |-> up[u].file_size,
     storage_message_id |-> u, file_name |-> PhotoName(up[u].unique_id)]

\* slots of upload_semaphore held by the frames of upload u: every outer frame
\* (one per rate-limit retry) holds one, the innermost once it has acquired
Held(u) ==
    up[u].depth + (IF up[u].pc \in {"idle", "acquire", "done"} THEN 0 ELSE 1)

\* mutant: the semaphore admits a caller although no slot is free
process_file_upload_acquire_ungated(u) ==
    /\ up[u].pc = "acquire"
    /\ sem_value' = sem_value - 1
    /\ up' = [up EXCEPT ![u].pc = "forward"]
    /\ UNCHANGED <<groups, group_seq, files, file_links, channel, floods, fd, gd, ln, rs, rv,
                 authorized_users, bot_settings, user_data, tx, sr, ad, lookup_raises>>

\* async with self.upload_semaphore (line 695): blocks while _value = 0
process_file_upload_acquire(u) ==
    /\ up[u].pc = "acquire"
    /\ sem_value > 0
    /\ sem_value' = sem_value - 1
    /\ up' = [up EXCEPT ![u].pc = "forward"]
    /\ UNCHANGED <<groups, group_seq, files, file_links, channel, floods, fd, gd, ln, rs, rv,
                 authorized_users, bot_settings, user_data, tx, sr, ad, lookup_raises>>

\* update.message.forward(storage_id) returns a message (lines 698-699)
process_file_upload_forward_ok(u) ==
    /\ up[u].pc = "forward"
    /\ channel' = channel \cup {u}
    /\ up' = [up EXCEPT ![u].pc = "select"]
    /\ UNCHANGED <<groups, group_seq, files, file_links, sem_value, floods, fd, gd, ln, rs, rv,
                 authorized_users, bot_settings, user_data, tx, sr, ad, lookup_raises>>

\* forward raises RetryAfter: except FloodWaitError, then asyncio.sleep inside
\* the async with block (lines 722-725)
process_file_upload_flood(u) ==
    /\ up[u].pc = "forward"
    /\ floods > 0
    /\ floods' = floods - 1
    /\ up' = [up EXCEPT ![u].pc = "sleep"]
    /\ UNCHANGED <<groups, group_seq, files, file_links, channel, sem_value, fd, gd, ln, rs, rv,
                 authorized_users, bot_settings, user_data, tx, sr, ad, lookup_raises>>

\* the sleep ends and the handler calls itself (line 726); the caller's frame,
\* still inside its async with block, awaits the inner call
process_file_upload_retry(u) ==
    /\ up[u].pc = "sleep"
    /\ up' = [up EXCEPT ![u].pc = "acquire", ![u].depth = @ + 1]
    /\ UNCHANGED <<groups, group_seq, files, file_links, channel, sem_value, floods, fd, gd, ln, rs, rv,
                 authorized_users, bot_settings, user_data, tx, sr, ad, lookup_raises>>

\* forward raises any other exception: except Exception (lines 727-729)
process_file_upload_forward_error(u) ==
    /\ up[u].pc = "forward"
    /\ up' = [up EXCEPT ![u].pc = "edit_status", ![u].result = "TransferFailed"]
    /\ UNCHANGED <<groups, group_seq, files, file_links, channel, sem_value, floods, fd, gd, ln, rs, rv,
                 authorized_users, bot_settings, user_data, tx, sr, ad, lookup_raises>>

\* BEGIN; SELECT COALESCE(MAX(serial_number), 0) + 1 (lines 702-705)
process_file_upload_select(u) ==
    /\ up[u].pc = "select"
    /\ up' = [up EXCEPT ![u].pc = "insert", ![u].next_serial = NextSerial(up[u].group_id)]
    /\ UNCHANGED <<groups, group_seq, files, file_links, channel, sem_value, floods, fd, gd, ln, rs, rv,
                 authorized_users, bot_settings, user_data, tx, sr, ad, lookup_raises>>

\* INSERT INTO files (lines 707-715).  It waits while a row it collides with
\* is written by a transaction in flight; it raises UniqueViolationError on a
\* committed collision and ForeignKeyViolationError when the group row is gone,
\* and the exception rolls the transaction back (lines 727-729).
process_file_upload_insert(u) ==
    /\ up[u].pc = "insert"
    /\ \A p \in PendingInserts(u) : ~UniqueConflict(FileRow(u), p)
    /\ \A f \in files : UniqueConflict(FileRow(u), f) => f.id \notin PendingFileDeletes(NULL)
    /\ IF \/ \E f \in files : UniqueConflict(FileRow(u), f)
          \/ ForeignKeyViolation(up[u].group_id)
       THEN up' = [up EXCEPT ![u].pc = "edit_status", ![u].next_serial = 0,
                             ![u].result = "RegistrationFailed"]
       ELSE up' = [up EXCEPT ![u].pc = "update"]
    /\ UNCHANGED <<groups, group_seq, files, file_links, channel, sem_value, floods, fd, gd, ln, rs, rv,
                 authorized_users, bot_settings, user_data, tx, sr, ad, lookup_raises>>

\* UPDATE groups SET total_files = total_files + 1, total_size = total_size + $1
\* and COMMIT (lines 716-717)
process_file_upload_update(u) ==
    /\ up[u].pc = "update"
    /\ files' = files \cup {FileRow(u)}
    /\ groups' = {IF g.id = up[u].group_id
                  THEN [g EXCEPT !.total_files = @ + 1, !.total_size = @ + up[u].file_size]
                  ELSE g : g \in groups}
    /\ up' = [up EXCEPT ![u].pc = "edit_status", ![u].next_serial = 0, ![u].result = "Saved"]
    /\ UNCHANGED <<group_seq, file_links, channel, sem_value, floods, fd, gd, ln, rs, rv,
                 authorized_users, bot_settings, user_data, tx, sr, ad, lookup_raises>>

\* mutant of SelectionAfterUpload: the finally block leaves the selection
SelectionKeptAfterUpload(user_id) ==
    user_data

\* the finally block (lines 730-733): unless is_bulk_upload is set, the
\* selected group is popped from the user's context.user_data
SelectionAfterUpload(user_id) ==
    [user_data EXCEPT ![user_id] =
        IF @.is_bulk_upload THEN @ ELSE [@ EXCEPT !.upload_group_id = NULL]]

\* mutant: only the innermost frame gives its slot back
process_file_upload_finish_one(u) ==
    /\ up[u].pc = "edit_status"
    /\ sem_value' = sem_value + 1
    /\ user_data' = SelectionAfterUpload(up[u].user_id)
    /\ up' = [up EXCEPT ![u].pc = "done", ![u].depth = 0]
    /\ UNCHANGED <<groups, group_seq, files, file_links, channel, floods, fd, gd, ln, rs, rv,
                 authorized_users, bot_settings, tx, sr, ad, lookup_raises>>

\* status_msg.edit_text returns; the finally block and the exit of the async
\* with block run in the innermost frame and then, without a further await, in
\* every frame that was awaiting it (lines 720, 729-733)
process_file_upload_finish(u) ==
    /\ up[u].pc = "edit_status"
    /\ sem_value' = sem_value + up[u].depth + 1
    /\ user_data' = SelectionAfterUpload(up[u].user_id)
    /\ up' = [up EXCEPT ![u].pc = "done", ![u].depth = 0]
    /\ UNCHANGED <<groups, group_seq, files, file_links, channel, floods, fd, gd, ln, rs, rv,
                 authorized_users, bot_settings, tx, sr, ad, lookup_raises>>

----------------------------------------------------------------------------
(* Admission model: more uploads than the semaphore has slots, all into one  *)
(* empty group.  The semaphore is built with GateSlots slots so that the     *)
(* uploads outnumber them; the backoff model below keeps the program's       *)
(* UPLOAD_CONCURRENCY.                                                       *)

NewUpload(user_id, g, uid, size) ==
    [pc |-> "acquire", user_id |-> user_id, group_id |-> g, unique_id |-> uid, file_size |-> size,
     depth |-> 0, next_serial |-> 0, result |-> "none"]

InitUploads(slots, n, nfloods) ==
    /\ groups = {[id |-> 1, name |-> "a", owner_id |-> 1, total_files |-> 0, total_size |-> 0]}
    /\ group_seq = 1
    /\ files = {}
    /\ file_links = {}
    /\ channel = {}
    /\ sem_value = slots
    /\ floods = nfloods
    /\ up = [u \in 1..n |-> NewUpload(1, 1, u, 1)]
    /\ fd = <<>>
    /\ gd = <<>>
    /\ ln = <<>>
    /\ rs = <<>>
    /\ rv = <<>>
    /\ InitAccess({1, 2})

InitAdmission == InitUploads(GateSlots, GateSlots + 2, GateSlots)

NextAdmission ==
    \/ \E u \in DOMAIN up : process_file_upload_acquire(u)
    \/ \E u \in DOMAIN up : process_file_upload_forward_ok(u)
    \/ \E u \in DOMAIN up : process_file_upload_flood(u)
    \/ \E u \in DOMAIN up : process_file_upload_retry(u)
    \/ \E u \in DOMAIN up : process_file_upload_forward_error(u)
    \/ \E u \in DOMAIN up : process_file_upload_select(u)
    \/ \E u \in DOMAIN up : process_file_upload_insert(u)
    \/ \E u \in DOMAIN up : process_file_upload_update(u)
    \/ \E u \in DOMAIN up : process_file_upload_finish(u)

SpecAdmission == InitAdmission /\ [][NextAdmission]_vars

(* Backoff model: two uploads behind the semaphore as the program builds it, *)
(* with enough rate-limit answers to fill every slot.                        *)

InitBackoff == InitUploads(UPLOAD_CONCURRENCY, 2, UPLOAD_CONCURRENCY)

NextBackoff == NextAdmission

SpecBackoff == InitBackoff /\ [][NextBackoff]_vars

----------------------------------------------------------------------------
(* Claims about admission and backoff *)

Uploads == DOMAIN up

RECURSIVE SumHeld(_)
SumHeld(S) ==
    IF S = {} THEN 0
    ELSE LET u == CHOOSE x \in S : TRUE IN Held(u) + SumHeld(S \ {u})

Registering(u) == up[u].pc \in {"select", "insert", "update"}

\* C1: when all N uploads into the empty group have gone through registration
\* (none failed in transfer), all N are saved and the serial numbers stored in
\* the group are exactly 1..N.
C1_ConcurrentSerialsExact ==
    (\A u \in Uploads : up[u].pc = "done" /\ up[u].result # "TransferFailed")
        => /\ \A u \in Uploads : up[u].result = "Saved"
           /\ {f.serial_number : f \in FilesOf(1)} = 1..Cardinality(Uploads)
           /\ Cardinality(FilesOf(1)) = Cardinality(Uploads)

\* C3: an upload in its backoff sleep holds no slot of the gate; so when as
\* many uploads are backing off as the gate has slots, the gate still has a
\* free slot for every one of them and the waiting uploads can be admitted.
C3_NoSlotHeldInBackoff ==
    /\ \A u \in Uploads : up[u].pc = "sleep" => Held(u) = 0
    /\ sem_value >= Cardinality({u \in Uploads : up[u].pc = "sleep"})

\* C4 (safety part): the gate never reaches a state where all slots are held
\* by callers that are themselves waiting for a slot.  From such a state no
\* holder can ever release, so no waiting upload reaches a terminal state.
C4_GateNeverWedged ==
    ~(/\ sem_value = 0
      /\ \A u \in Uploads : Held(u) > 0 => up[u].pc = "acquire")

\* C5: an upload makes at most 3 retries (4 store attempts); the retries made
\* so far are the frames awaiting an inner call.
C5_RetriesBounded ==
    \A u \in Uploads : up[u].depth <= 3

\* C6: at every moment the number of uploads inside the store call
\* (Transferring) is at most the capacity of the gate.
C6_TransferringWithinCapacity ==
    Cardinality({u \in Uploads : up[u].pc = "forward"}) <= GateSlots

\* C6 witness: every slot is taken by a transferring upload while another
\* upload waits at the gate.
C6_Witness ==
    /\ Cardinality({u \in Uploads : up[u].pc = "forward"}) = GateSlots
    /\ \E u \in Uploads : up[u].pc = "acquire" /\ up[u].depth = 0

\* C7: no upload holds a slot of the gate while it is registering.
C7_NoSlotHeldWhileRegistering ==
    \A u \in Uploads : Registering(u) => Held(u) = 0

\* C8: a store call that fails with an error other than a rate limit ends the
\* upload in Failed with every slot it held given back, no File row of its
\* own, and no step of the failing upload changing a File row or the counters
\* of a group.
C8_TransferFailure ==
    [][\A u \in Uploads :
         up'[u].result = "TransferFailed"
           => /\ up'[u].pc \in {"edit_status", "done"}
              /\ ~\E f \in files' : f.id = u
              /\ u \notin channel'
              /\ up'[u] # up[u] => files' = files /\ groups' = groups
              /\ up'[u].pc = "done"
                   => /\ Held(u)' = 0
                      /\ sem_value' + SumHeld(Uploads)' = GateSlots]_vars

\* C8 witness: an upload has ended in TransferFailed after a rate-limit retry,
\* next to a saved file.
C8_Witness ==
    \E u \in Uploads :
        /\ up[u].pc = "done" /\ up[u].result = "TransferFailed"
        /\ \E v \in Uploads \ {u} : up[v].result = "Saved"
        /\ floods < GateSlots

----------------------------------------------------------------------------
(* Registry model: tasks, one per inbound update, start with the arguments   *)
(* the update carries.                                                       *)

Users == {1}
GroupNames == {"a"}
Codes == {"c1", "c2"}
Sizes == {1, 2}

\* values the sequence behind groups.id may give out in one run
MaxGroups == 2

NoRow == [id |-> NULL, storage_message_id |-> NULL, file_size |-> 0, group_id |-> NULL]

IdleDelete ==
    [pc |-> "idle", user_id |-> NULL, group_name |-> "", serial |-> 0,
     file_data |-> NoRow, deleted |-> FALSE, result |-> "none"]

IdleGroupDelete ==
    [pc |-> "idle", user_id |-> NULL, callback_data |-> <<>>, group_name |-> "",
     message_ids |-> {}, remaining |-> {}, deleted_count |-> 0, total |-> 0, cascaded |-> {},
     result |-> "none"]

IdleLink ==
    [pc |-> "idle", user_id |-> NULL, link_type |-> "", group_name |-> "", serial |-> 0,
     file_id |-> NULL, group_id |-> NULL, tries |-> 0, result |-> "none"]

\* file_handler and _create_new_group for an authorized user who is awaited
\* to name a group and sends a valid name (lines 549-555, 735-753): INSERT INTO
\* groups (name, owner_id); the sequence advances also when
\* UNIQUE(name, owner_id) rejects the row
create_new_group(user_id, group_name) ==
    /\ is_user_authorized(user_id)
    /\ group_seq < MaxGroups
    /\ group_seq' = group_seq + 1
    /\ IF \E g \in groups : g.name = group_name /\ g.owner_id = user_id
       THEN groups' = groups
       ELSE groups' = groups \cup {[id |-> group_seq + 1, name |-> group_name,
                                    owner_id |-> user_id, total_files |-> 0, total_size |-> 0]}
    /\ UNCHANGED <<files, file_links, channel, sem_value, floods, up, fd, gd, ln, rs, rv,
                 authorized_users, bot_settings, user_data, tx, sr, ad, lookup_raises>>

\* file_handler (lines 547-568): a file arrives while upload_group_id is set;
\* the handler returns at once for a user who is not authorized
file_handler(u, user_id, group_id, unique_id, file_size) ==
    /\ up[u].pc = "idle"
    /\ IF is_user_authorized(user_id)
       THEN up' = [up EXCEPT ![u] = NewUpload(user_id, group_id, unique_id, file_size)]
       ELSE up' = [up EXCEPT ![u].pc = "done", ![u].user_id = user_id,
                             ![u].result = "Unauthorized"]
    /\ UNCHANGED <<groups, group_seq, files, file_links, channel, sem_value, floods, fd, gd, ln, rs, rv,
                 authorized_users, bot_settings, user_data, tx, sr, ad, lookup_raises>>

\* MAX_FILE_SIZE (line 43)
MAX_FILE_SIZE == 2000 * 1024 * 1024

\* upload_handler and bulkupload_handler (lines 298-312): the mode is stored
\* and the keyboard of the caller's groups is sent; the selection is left
upload_handler(user_id, bulk) ==
    /\ is_user_authorized(user_id)
    /\ user_data' = [user_data EXCEPT ![user_id].is_bulk_upload = bulk]
    /\ UNCHANGED <<groups, group_seq, files, file_links, channel, sem_value, floods, up, fd, gd,
                   ln, rs, rv, authorized_users, bot_settings, tx, sr, ad, lookup_raises>>

\* callback_handler, action select_group_upload (lines 575-585, 600-609)
callback_select_group_upload(user_id, group_id) ==
    /\ is_user_authorized(user_id)
    /\ user_data' = [user_data EXCEPT ![user_id].upload_group_id = group_id]
    /\ UNCHANGED <<groups, group_seq, files, file_links, channel, sem_value, floods, up, fd, gd,
                   ln, rs, rv, authorized_users, bot_settings, tx, sr, ad, lookup_raises>>

\* clear_handler (lines 288-296)
clear_handler(user_id) ==
    /\ is_user_authorized(user_id)
    /\ user_data' = [user_data EXCEPT ![user_id].upload_group_id = NULL,
                                      ![user_id].is_bulk_upload = FALSE]
    /\ UNCHANGED <<groups, group_seq, files, file_links, channel, sem_value, floods, up, fd, gd,
                   ln, rs, rv, authorized_users, bot_settings, tx, sr, ad, lookup_raises>>

\* file_handler for a file (lines 547-573), the group read from the session:
\* without a selection the file is answered with "Please select a group
\* first", a file above MAX_FILE_SIZE with "File is too large"
file_handler_session(u, user_id, unique_id, file_size) ==
    IF is_user_authorized(user_id) /\ user_data[user_id].upload_group_id = NULL
    THEN /\ up[u].pc = "idle"
         /\ up' = [up EXCEPT ![u].pc = "done", ![u].user_id = user_id,
                             ![u].result = "NoGroupSelected"]
         /\ UNCHANGED <<groups, group_seq, files, file_links, channel, sem_value, floods, fd, gd,
                        ln, rs, rv, authorized_users, bot_settings, user_data, tx, sr, ad, lookup_raises>>
    ELSE IF is_user_authorized(user_id) /\ file_size > MAX_FILE_SIZE
    THEN /\ up[u].pc = "idle"
         /\ up' = [up EXCEPT ![u].pc = "done", ![u].user_id = user_id,
                             ![u].result = "TooLarge"]
         /\ UNCHANGED <<groups, group_seq, files, file_links, channel, sem_value, floods, fd, gd,
                        ln, rs, rv, authorized_users, bot_settings, user_data, tx, sr, ad, lookup_raises>>
    ELSE file_handler(u, user_id, user_data[user_id].upload_group_id, unique_id, file_size)

----------------------------------------------------------------------------
(* _perform_file_delete: lines 833-861 *)

\* SELECT f.id, f.storage_message_id, f.file_size, g.id as group_id FROM files f
\* JOIN groups g ... WHERE g.owner_id = $1 AND g.name = $2 AND f.serial_number = $3
SelectFile(user_id, group_name, serial) ==
    {f \in files : /\ f.serial_number = serial
                   /\ \E g \in groups : /\ g.id = f.group_id
                                        /\ g.owner_id = user_id
                                        /\ g.name = group_name}

\* callback_handler, action confirm_delete_file (lines 575-581, 613-615)
confirm_delete_file(d, user_id, group_name, serial) ==
    /\ fd[d].pc = "idle"
    /\ IF is_user_authorized(user_id)
       THEN fd' = [fd EXCEPT ![d] = [IdleDelete EXCEPT !.pc = "select", !.user_id = user_id,
                                                      !.group_name = group_name,
                                                      !.serial = serial]]
       ELSE fd' = [fd EXCEPT ![d] = [IdleDelete EXCEPT !.pc = "done", !.user_id = user_id,
                                                      !.result = "Unauthorized"]]
    /\ UNCHANGED <<groups, group_seq, files, file_links, channel, sem_value, floods, up, gd, ln, rs, rv,
                 authorized_users, bot_settings, user_data, tx, sr, ad, lookup_raises>>

\* fetchrow (lines 837-845)
perform_file_delete_select(d) ==
    /\ fd[d].pc = "select"
    /\ LET rows == SelectFile(fd[d].user_id, fd[d].group_name, fd[d].serial) IN
         IF rows = {}
         THEN fd' = [fd EXCEPT ![d] = [IdleDelete EXCEPT !.pc = "done", !.result = "NotFound"]]
         ELSE \E f \in rows :
                fd' = [fd EXCEPT ![d].pc = "delete",
                                 ![d].file_data = [id |-> f.id,
                                                   storage_message_id |-> f.storage_message_id,
                                                   file_size |-> f.file_size,
                                                   group_id |-> f.group_id]]
    /\ UNCHANGED <<groups, group_seq, files, file_links, channel, sem_value, floods, up, gd, ln, rs, rv,
                 authorized_users, bot_settings, user_data, tx, sr, ad, lookup_raises>>

\* DELETE FROM files WHERE id = $1 (line 848): waits while another transaction
\* in flight has deleted the row; deletes nothing when the row is gone.  The
\* result of the statement is not looked at.
perform_file_delete_delete(d) ==
    /\ fd[d].pc = "delete"
    /\ fd[d].file_data.id \notin PendingFileDeletes(d)
    /\ fd' = [fd EXCEPT ![d].pc = "update",
                        ![d].deleted = \E f \in files : f.id = fd[d].file_data.id]
    /\ UNCHANGED <<groups, group_seq, files, file_links, channel, sem_value, floods, up, gd, ln, rs, rv,
                 authorized_users, bot_settings, user_data, tx, sr, ad, lookup_raises>>

\* mutant of LinksAfterFileDelete: the foreign key of file_links.file_id does
\* not cascade
LinksKeptOnFileDelete(ids) == file_links

\* ON DELETE CASCADE of file_links.file_id (line 119)
LinksAfterFileDelete(ids) == {l \in file_links : l.file_id \notin ids}

\* mutant of perform_file_delete_update: the message is deleted from the
\* channel inside the transaction
perform_file_delete_update_with_remote(d) ==
    /\ fd[d].pc = "update"
    /\ LET gone == IF fd[d].deleted THEN {fd[d].file_data.id} ELSE {} IN
         /\ files' = {f \in files : f.id \notin gone}
         /\ file_links' = LinksAfterFileDelete(gone)
    /\ groups' = {IF g.id = fd[d].file_data.group_id
                  THEN [g EXCEPT !.total_files = @ - 1,
                                 !.total_size = @ - fd[d].file_data.file_size]
                  ELSE g : g \in groups}
    /\ channel' = channel \ {fd[d].file_data.storage_message_id}
    /\ fd' = [fd EXCEPT ![d].pc = "remote"]
    /\ UNCHANGED <<group_seq, sem_value, floods, up, gd, ln, rs, rv,
                 authorized_users, bot_settings, user_data, tx, sr, ad, lookup_raises>>

\* UPDATE groups SET total_files = total_files - 1, total_size = total_size - $1
\* WHERE id = $2 (line 850) and COMMIT
perform_file_delete_update(d) ==
    /\ fd[d].pc = "update"
    /\ LET gone == IF fd[d].deleted THEN {fd[d].file_data.id} ELSE {} IN
         /\ files' = {f \in files : f.id \notin gone}
         /\ file_links' = LinksAfterFileDelete(gone)
    /\ groups' = {IF g.id = fd[d].file_data.group_id
                  THEN [g EXCEPT !.total_files = @ - 1,
                                 !.total_size = @ - fd[d].file_data.file_size]
                  ELSE g : g \in groups}
    /\ fd' = [fd EXCEPT ![d].pc = "remote"]
    /\ UNCHANGED <<group_seq, channel, sem_value, floods, up, gd, ln, rs, rv,
                 authorized_users, bot_settings, user_data, tx, sr, ad, lookup_raises>>

\* mutant of perform_file_delete_remote: a failed delete_message is reported
\* as a failed deletion
perform_file_delete_remote_error(d) ==
    /\ fd[d].pc = "remote"
    /\ \/ /\ fd[d].file_data.storage_message_id \in channel
          /\ channel' = channel \ {fd[d].file_data.storage_message_id}
          /\ fd' = [fd EXCEPT ![d] = [IdleDelete EXCEPT !.pc = "done", !.result = "Deleted"]]
       \/ /\ channel' = channel
          /\ fd' = [fd EXCEPT ![d] = [IdleDelete EXCEPT !.pc = "done", !.result = "Error"]]
    /\ UNCHANGED <<groups, group_seq, files, file_links, sem_value, floods, up, gd, ln, rs, rv,
                 authorized_users, bot_settings, user_data, tx, sr, ad, lookup_raises>>

\* self.app.bot.delete_message succeeds, for a message that is in the
\* channel, or raises; either way the handler reports the deletion
\* (lines 852-858)
perform_file_delete_remote(d) ==
    /\ fd[d].pc = "remote"
    /\ \/ /\ fd[d].file_data.storage_message_id \in channel
          /\ channel' = channel \ {fd[d].file_data.storage_message_id}
       \/ channel' = channel
    /\ fd' = [fd EXCEPT ![d] = [IdleDelete EXCEPT !.pc = "done", !.result = "Deleted"]]
    /\ UNCHANGED <<groups, group_seq, files, file_links, sem_value, floods, up, gd, ln, rs, rv,
                 authorized_users, bot_settings, user_data, tx, sr, ad, lookup_raises>>

----------------------------------------------------------------------------
(* _perform_group_delete: lines 863-894 *)

\* the group row DELETE FROM groups WHERE owner_id = $1 AND name = $2 matches
SelectGroup(user_id, group_name) ==
    {g \in groups : g.owner_id = user_id /\ g.name = group_name}

\* mutant of LinksAfterGroupDelete: only the links of the group itself go,
\* the links of its files stay
LinksAfterGroupDeleteGroupOnly(gids) ==
    {l \in file_links : l.group_id \notin gids}

\* ON DELETE CASCADE of files.group_id, file_links.group_id and
\* file_links.file_id (lines 110, 119, 120)
LinksAfterGroupDelete(gids) ==
    {l \in file_links :
        /\ l.group_id \notin gids
        /\ l.file_id \notin {f.id : f \in {x \in files : x.group_id \in gids}}}

\* deletegroup_handler (lines 401-414): the callback data of the button "Yes,
\* Delete Group" for the one argument of the command, a sequence of
\* characters after the word confirm_delete_group
DeleteGroupKeyboard(args) ==
    <<"confirm_delete_group", ":">> \o args[1]

\* query.data.split(':') (line 583)
RECURSIVE Split(_)
Split(data) ==
    IF \A i \in 1..Len(data) : data[i] # ":" THEN <<data>>
    ELSE LET i == CHOOSE k \in 1..Len(data) :
                    data[k] = ":" /\ \A j \in 1..(k - 1) : data[j] # ":"
         IN <<SubSeq(data, 1, i - 1)>> \o Split(SubSeq(data, i + 1, Len(data)))

\* callback_handler for the data of a "Yes, Delete Group" button (lines
\* 575-585, 616-618): group_name = data[1]
callback_confirm_delete_group(t, user_id, callback_data) ==
    /\ gd[t].pc = "idle"
    /\ Split(callback_data)[1] = <<"confirm_delete_group">>
    /\ IF is_user_authorized(user_id)
       THEN gd' = [gd EXCEPT ![t] = [IdleGroupDelete EXCEPT !.pc = "select",
                                                           !.user_id = user_id,
                                                           !.callback_data = callback_data,
                                                           !.group_name = Split(callback_data)[2]]]
       ELSE gd' = [gd EXCEPT ![t] = [IdleGroupDelete EXCEPT !.pc = "done", !.user_id = user_id,
                                                           !.result = "Unauthorized"]]
    /\ UNCHANGED <<groups, group_seq, files, file_links, channel, sem_value, floods, up, fd, ln, rs, rv,
                 authorized_users, bot_settings, user_data, tx, sr, ad, lookup_raises>>

\* callback_handler, action confirm_delete_group (lines 616-618), for the
\* data of a group name that is taken as one piece
confirm_delete_group(t, user_id, group_name) ==
    /\ gd[t].pc = "idle"
    /\ IF is_user_authorized(user_id)
       THEN gd' = [gd EXCEPT ![t] = [IdleGroupDelete EXCEPT !.pc = "select",
                                                           !.user_id = user_id,
                                                           !.group_name = group_name]]
       ELSE gd' = [gd EXCEPT ![t] = [IdleGroupDelete EXCEPT !.pc = "done", !.user_id = user_id,
                                                           !.result = "Unauthorized"]]
    /\ UNCHANGED <<groups, group_seq, files, file_links, channel, sem_value, floods, up, fd, ln, rs, rv,
                 authorized_users, bot_settings, user_data, tx, sr, ad, lookup_raises>>

\* message_ids = [r['storage_message_id'] for r in await conn.fetch(...)]
\* (lines 868-871)
perform_group_delete_select(t) ==
    /\ gd[t].pc = "select"
    /\ gd' = [gd EXCEPT ![t].pc = "delete",
                        ![t].message_ids =
                            {f.storage_message_id :
                                f \in {x \in files :
                                         x.group_id \in {g.id : g \in SelectGroup(gd[t].user_id,
                                                                                  gd[t].group_name)}}}]
    /\ UNCHANGED <<groups, group_seq, files, file_links, channel, sem_value, floods, up, fd, ln, rs, rv,
                 authorized_users, bot_settings, user_data, tx, sr, ad, lookup_raises>>

\* transactions in flight that hold a lock the DELETE of group row gid needs:
\* an upload that has inserted a file of the group (key-share lock on the
\* group row), a file delete that has deleted a file of the group
UploadsInto(gid) == {u \in DOMAIN up : up[u].pc = "update" /\ up[u].group_id = gid}
DeletesIn(gid) ==
    {d \in DOMAIN fd : fd[d].pc = "update" /\ fd[d].deleted /\ fd[d].file_data.group_id = gid}

\* DELETE FROM groups WHERE owner_id = $1 AND name = $2 (line 874) and COMMIT
perform_group_delete_delete(t) ==
    /\ gd[t].pc = "delete"
    /\ LET gids == {g.id : g \in SelectGroup(gd[t].user_id, gd[t].group_name)} IN
         /\ \A gid \in gids : UploadsInto(gid) = {} /\ DeletesIn(gid) = {}
         /\ groups' = {g \in groups : g.id \notin gids}
         /\ files' = {f \in files : f.group_id \notin gids}
         /\ file_links' = LinksAfterGroupDelete(gids)
         /\ IF gids = {}
            THEN gd' = [gd EXCEPT ![t] = [IdleGroupDelete EXCEPT !.pc = "done",
                                                                 !.result = "NotFound"]]
            ELSE gd' = [gd EXCEPT ![t].pc = "remote",
                                  ![t].remaining = gd[t].message_ids,
                                  ![t].cascaded = {f.storage_message_id :
                                                     f \in {x \in files : x.group_id \in gids}}]
    /\ UNCHANGED <<group_seq, channel, sem_value, floods, up, fd, ln, rs, rv,
                 authorized_users, bot_settings, user_data, tx, sr, ad, lookup_raises>>

\* mutant of perform_group_delete_remote: the first failed delete_message ends
\* the loop
perform_group_delete_remote_stop(t) ==
    /\ gd[t].pc = "remote"
    /\ \E m \in gd[t].remaining :
         \/ /\ m \in channel
            /\ channel' = channel \ {m}
            /\ gd' = [gd EXCEPT ![t].remaining = @ \ {m}, ![t].deleted_count = @ + 1]
         \/ /\ channel' = channel
            /\ gd' = [gd EXCEPT ![t].remaining = {}]
    /\ UNCHANGED <<groups, group_seq, files, file_links, sem_value, floods, up, fd, ln, rs, rv,
                 authorized_users, bot_settings, user_data, tx, sr, ad, lookup_raises>>

\* for msg_id in message_ids: delete_message succeeds, for a message that is
\* in the channel, or raises (lines 883-889);
\* the SELECT has no ORDER BY, so the list is walked in any order
perform_group_delete_remote(t) ==
    /\ gd[t].pc = "remote"
    /\ \E m \in gd[t].remaining :
         \/ /\ m \in channel
            /\ channel' = channel \ {m}
            /\ gd' = [gd EXCEPT ![t].remaining = @ \ {m}, ![t].deleted_count = @ + 1]
         \/ /\ channel' = channel
            /\ gd' = [gd EXCEPT ![t].remaining = @ \ {m}]
    /\ UNCHANGED <<groups, group_seq, files, file_links, sem_value, floods, up, fd, ln, rs, rv,
                 authorized_users, bot_settings, user_data, tx, sr, ad, lookup_raises>>

\* the loop is over: the tally is reported (line 891)
perform_group_delete_report(t) ==
    /\ gd[t].pc = "remote"
    /\ gd[t].remaining = {}
    /\ gd' = [gd EXCEPT ![t] = [IdleGroupDelete EXCEPT !.pc = "done", !.result = "Deleted",
                                                       !.deleted_count = gd[t].deleted_count,
                                                       !.total = Cardinality(gd[t].message_ids)]]
    /\ UNCHANGED <<groups, group_seq, files, file_links, channel, sem_value, floods, up, fd, ln, rs, rv,
                 authorized_users, bot_settings, user_data, tx, sr, ad, lookup_raises>>

\* mutant of deadlock_detected: the file deletion whose transaction was
\* aborted goes on to delete_message
deadlock_detected_then_remote(d, t) ==
    /\ gd[t].pc = "delete"
    /\ fd[d].pc = "update"
    /\ \E g \in SelectGroup(gd[t].user_id, gd[t].group_name) :
         /\ d \in DeletesIn(g.id)
         /\ UploadsInto(g.id) = {}
    /\ \/ /\ fd' = [fd EXCEPT ![d].pc = "remote"]
          /\ gd' = gd
       \/ /\ gd' = [gd EXCEPT ![t] = [IdleGroupDelete EXCEPT !.pc = "done", !.result = "Error"]]
          /\ fd' = fd
    /\ UNCHANGED <<groups, group_seq, files, file_links, channel, sem_value, floods, up, ln, rs, rv,
                 authorized_users, bot_settings, user_data, tx, sr, ad, lookup_raises>>

\* The DELETE of a group row has locked the row and waits, in its cascade, for
\* a file delete in flight that holds a file row of the group and now waits for
\* the group row in its UPDATE: PostgreSQL aborts one of the two with
\* DeadlockDetectedError, which the except Exception of its handler reports
\* (lines 859-861, 892-894).
deadlock_detected(d, t) ==
    /\ gd[t].pc = "delete"
    /\ fd[d].pc = "update"
    /\ \E g \in SelectGroup(gd[t].user_id, gd[t].group_name) :
         /\ d \in DeletesIn(g.id)
         /\ UploadsInto(g.id) = {}
    /\ \/ /\ fd' = [fd EXCEPT ![d] = [IdleDelete EXCEPT !.pc = "done", !.result = "Error"]]
          /\ gd' = gd
       \/ /\ gd' = [gd EXCEPT ![t] = [IdleGroupDelete EXCEPT !.pc = "done", !.result = "Error"]]
          /\ fd' = fd
    /\ UNCHANGED <<groups, group_seq, files, file_links, channel, sem_value, floods, up, ln, rs, rv,
                 authorized_users, bot_settings, user_data, tx, sr, ad, lookup_raises>>

----------------------------------------------------------------------------
(* getlink_handler, getgrouplink_handler, _create_link: lines 322-379, 755-767 *)

\* collisions of a generated code that one _create_link call meets in one run
MaxCollisions == 6

\* getlink_handler (lines 322-334)
getlink_handler(t, user_id, group_name, serial) ==
    /\ ln[t].pc = "idle"
    /\ IF is_user_authorized(user_id)
       THEN ln' = [ln EXCEPT ![t] = [IdleLink EXCEPT !.pc = "lookup", !.user_id = user_id,
                                                    !.link_type = "file",
                                                    !.group_name = group_name,
                                                    !.serial = serial]]
       ELSE ln' = [ln EXCEPT ![t] = [IdleLink EXCEPT !.pc = "done", !.user_id = user_id,
                                                    !.result = "Unauthorized"]]
    /\ UNCHANGED <<groups, group_seq, files, file_links, channel, sem_value, floods, up, fd, gd, rs, rv,
                 authorized_users, bot_settings, user_data, tx, sr, ad, lookup_raises>>

\* getgrouplink_handler (lines 356-364)
getgrouplink_handler(t, user_id, group_name) ==
    /\ ln[t].pc = "idle"
    /\ IF is_user_authorized(user_id)
       THEN ln' = [ln EXCEPT ![t] = [IdleLink EXCEPT !.pc = "lookup", !.user_id = user_id,
                                                    !.link_type = "group",
                                                    !.group_name = group_name]]
       ELSE ln' = [ln EXCEPT ![t] = [IdleLink EXCEPT !.pc = "done", !.user_id = user_id,
                                                    !.result = "Unauthorized"]]
    /\ UNCHANGED <<groups, group_seq, files, file_links, channel, sem_value, floods, up, fd, gd, rs, rv,
                 authorized_users, bot_settings, user_data, tx, sr, ad, lookup_raises>>

\* mutant of getlink_lookup: a file link also carries the group of its file
getlink_lookup_with_group(t) ==
    /\ ln[t].pc = "lookup"
    /\ LET targets ==
             IF ln[t].link_type = "file"
             THEN SelectFile(ln[t].user_id, ln[t].group_name, ln[t].serial)
             ELSE SelectGroup(ln[t].user_id, ln[t].group_name) IN
         IF targets = {}
         THEN ln' = [ln EXCEPT ![t] = [IdleLink EXCEPT !.pc = "done", !.result = "NotFound"]]
         ELSE \E row \in targets :
                ln' = [ln EXCEPT ![t].pc = "insert",
                                 ![t].file_id = IF ln[t].link_type = "file" THEN row.id ELSE NULL,
                                 ![t].group_id = IF ln[t].link_type = "file"
                                                 THEN row.group_id ELSE row.id]
    /\ UNCHANGED <<groups, group_seq, files, file_links, channel, sem_value, floods, up, fd, gd,
                   rs, rv, authorized_users, bot_settings, user_data, tx, sr, ad, lookup_raises>>

\* mutant of getlink_lookup: the SELECT does not ask for the caller's groups
getlink_lookup_any_owner(t) ==
    /\ ln[t].pc = "lookup"
    /\ LET targets ==
             IF ln[t].link_type = "file"
             THEN {f.id : f \in UNION {SelectFile(a, ln[t].group_name, ln[t].serial) :
                                         a \in Accounts}}
             ELSE {g.id : g \in UNION {SelectGroup(a, ln[t].group_name) : a \in Accounts}} IN
         IF targets = {}
         THEN ln' = [ln EXCEPT ![t] = [IdleLink EXCEPT !.pc = "done", !.result = "NotFound"]]
         ELSE \E id \in targets :
                ln' = [ln EXCEPT ![t].pc = "insert",
                                 ![t].file_id = IF ln[t].link_type = "file" THEN id ELSE NULL,
                                 ![t].group_id = IF ln[t].link_type = "group" THEN id ELSE NULL]
    /\ UNCHANGED <<groups, group_seq, files, file_links, channel, sem_value, floods, up, fd, gd, rs, rv,
                 authorized_users, bot_settings, user_data, tx, sr, ad, lookup_raises>>

\* the SELECT that finds the target (lines 337-346, 366-371)
getlink_lookup(t) ==
    /\ ln[t].pc = "lookup"
    /\ LET targets ==
             IF ln[t].link_type = "file"
             THEN {f.id : f \in SelectFile(ln[t].user_id, ln[t].group_name, ln[t].serial)}
             ELSE {g.id : g \in SelectGroup(ln[t].user_id, ln[t].group_name)} IN
         IF targets = {}
         THEN ln' = [ln EXCEPT ![t] = [IdleLink EXCEPT !.pc = "done", !.result = "NotFound"]]
         ELSE \E id \in targets :
                ln' = [ln EXCEPT ![t].pc = "insert",
                                 ![t].file_id = IF ln[t].link_type = "file" THEN id ELSE NULL,
                                 ![t].group_id = IF ln[t].link_type = "group" THEN id ELSE NULL]
    /\ UNCHANGED <<groups, group_seq, files, file_links, channel, sem_value, floods, up, fd, gd, rs, rv,
                 authorized_users, bot_settings, user_data, tx, sr, ad, lookup_raises>>

\* mutant of create_link: file_links has no foreign keys
create_link_unchecked(t, link_code) ==
    /\ ln[t].pc = "insert"
    /\ IF \E l \in file_links : l.link_code = link_code
       THEN /\ ln[t].tries < MaxCollisions
            /\ ln' = [ln EXCEPT ![t].tries = @ + 1]
            /\ file_links' = file_links
       ELSE /\ file_links' = file_links \cup
                  {[id |-> t, link_code |-> link_code, file_id |-> ln[t].file_id,
                    group_id |-> ln[t].group_id, link_type |-> ln[t].link_type,
                    owner_id |-> ln[t].user_id, clicks |-> 0, is_active |-> TRUE]}
            /\ ln' = [ln EXCEPT ![t] = [IdleLink EXCEPT !.pc = "done", !.result = "Issued",
                                                        !.tries = ln[t].tries]]
    /\ UNCHANGED <<groups, group_seq, files, channel, sem_value, floods, up, fd, gd, rs, rv,
                 authorized_users, bot_settings, user_data, tx, sr, ad, lookup_raises>>

\* mutant of create_link: a collision of the code is reported as an error
create_link_no_retry(t, link_code) ==
    /\ ln[t].pc = "insert"
    /\ IF \E l \in file_links : l.link_code = link_code
       THEN /\ ln' = [ln EXCEPT ![t] = [IdleLink EXCEPT !.pc = "done", !.result = "Error"]]
            /\ file_links' = file_links
       ELSE /\ file_links' = file_links \cup
                  {[id |-> t, link_code |-> link_code, file_id |-> ln[t].file_id,
                    group_id |-> ln[t].group_id, link_type |-> ln[t].link_type,
                    owner_id |-> ln[t].user_id, clicks |-> 0, is_active |-> TRUE]}
            /\ ln' = [ln EXCEPT ![t] = [IdleLink EXCEPT !.pc = "done", !.result = "Issued",
                                                        !.tries = ln[t].tries]]
    /\ UNCHANGED <<groups, group_seq, files, channel, sem_value, floods, up, fd, gd, rs, rv,
                 authorized_users, bot_settings, user_data, tx, sr, ad, lookup_raises>>

\* mutant of handle_shared_link_select: a code without a row is answered with
\* some other link
handle_shared_link_select_any(t) ==
    /\ rs[t].pc = "select"
    /\ IF file_links = {}
       THEN rs' = [rs EXCEPT ![t].pc = "done", ![t].result = "NotFound"]
       ELSE \E l \in file_links :
              rs' = [rs EXCEPT ![t].pc = "update",
                               ![t].link_data = [id |-> l.id, link_type |-> l.link_type,
                                                 file_id |-> l.file_id, group_id |-> l.group_id]]
    /\ UNCHANGED <<groups, group_seq, files, file_links, channel, sem_value, floods, up, fd, gd, ln, rv,
                 authorized_users, bot_settings, user_data, tx, sr, ad, lookup_raises>>

\* _create_link (lines 755-767): INSERT INTO file_links with a generated code.
\* UniqueViolationError on link_code makes the method call itself; a target
\* row that is gone raises ForeignKeyViolationError, which the handler
\* reports (lines 352-354, 377-379).  The foreign-key check waits for a
\* transaction in flight that has deleted the target file.
create_link(t, link_code) ==
    /\ ln[t].pc = "insert"
    /\ ln[t].file_id \notin PendingFileDeletes(NULL)
    /\ IF \E l \in file_links : l.link_code = link_code
       THEN /\ ln[t].tries < MaxCollisions
            /\ ln' = [ln EXCEPT ![t].tries = @ + 1]
            /\ file_links' = file_links
       ELSE IF \/ ln[t].link_type = "file" /\ ln[t].file_id \notin {f.id : f \in files}
               \/ ln[t].link_type = "group" /\ ln[t].group_id \notin GroupIds
            THEN /\ ln' = [ln EXCEPT ![t] = [IdleLink EXCEPT !.pc = "done", !.result = "Error"]]
                 /\ file_links' = file_links
            ELSE /\ file_links' = file_links \cup
                       {[id |-> t, link_code |-> link_code, file_id |-> ln[t].file_id,
                         group_id |-> ln[t].group_id, link_type |-> ln[t].link_type,
                         owner_id |-> ln[t].user_id, clicks |-> 0, is_active |-> TRUE]}
                 /\ ln' = [ln EXCEPT ![t] = [IdleLink EXCEPT !.pc = "done", !.result = "Issued",
                                                             !.tries = ln[t].tries]]
    /\ UNCHANGED <<groups, group_seq, files, channel, sem_value, floods, up, fd, gd, rs, rv,
                 authorized_users, bot_settings, user_data, tx, sr, ad, lookup_raises>>

----------------------------------------------------------------------------
(* _handle_shared_link: lines 635-689 *)

NoLink == [id |-> NULL, link_type |-> "", file_id |-> NULL, group_id |-> NULL]

IdleResolve ==
    [pc |-> "idle", user_id |-> NULL, link_code |-> "", link_data |-> NoLink,
     group_files |-> <<>>, delivered |-> {}, caption |-> <<>>, result |-> "none"]

\* SELECT * FROM file_links WHERE link_code = $1 AND is_active = TRUE
LinkLookup(link_code) ==
    {l \in file_links : l.link_code = link_code /\ l.is_active}

\* the storage_message_ids of a set of file rows, ORDER BY serial_number
RECURSIVE BySerial(_)
BySerial(rows) ==
    IF rows = {} THEN <<>>
    ELSE LET f == CHOOSE x \in rows : \A y \in rows : x.serial_number <= y.serial_number
         IN <<f.storage_message_id>> \o BySerial(rows \ {f})

\* start_handler with a deep-link argument (lines 232-242)
start_handler(t, user_id, link_code) ==
    /\ rs[t].pc = "idle"
    /\ IF is_user_authorized(user_id)
       THEN rs' = [rs EXCEPT ![t] = [IdleResolve EXCEPT !.pc = "select", !.user_id = user_id,
                                                       !.link_code = link_code]]
       ELSE rs' = [rs EXCEPT ![t] = [IdleResolve EXCEPT !.pc = "done", !.user_id = user_id,
                                                       !.link_code = link_code,
                                                       !.result = "Unauthorized"]]
    /\ UNCHANGED <<groups, group_seq, files, file_links, channel, sem_value, floods, up, fd, gd, ln, rv,
                 authorized_users, bot_settings, user_data, tx, sr, ad, lookup_raises>>

\* fetchrow; no row: "This link is invalid or has expired." (lines 638-641)
handle_shared_link_select(t) ==
    /\ rs[t].pc = "select"
    /\ IF LinkLookup(rs[t].link_code) = {}
       THEN rs' = [rs EXCEPT ![t].pc = "done", ![t].result = "NotFound"]
       ELSE \E l \in LinkLookup(rs[t].link_code) :
              rs' = [rs EXCEPT ![t].pc = "update",
                               ![t].link_data = [id |-> l.id, link_type |-> l.link_type,
                                                 file_id |-> l.file_id, group_id |-> l.group_id]]
    /\ UNCHANGED <<groups, group_seq, files, file_links, channel, sem_value, floods, up, fd, gd, ln, rv,
                 authorized_users, bot_settings, user_data, tx, sr, ad, lookup_raises>>

\* mutant of handle_shared_link_update: the counter is written from a value
\* read earlier instead of being incremented in the statement
handle_shared_link_update_overwrite(t) ==
    /\ rs[t].pc = "update"
    /\ file_links' = {IF l.id = rs[t].link_data.id THEN [l EXCEPT !.clicks = 1] ELSE l :
                        l \in file_links}
    /\ rs' = [rs EXCEPT ![t].pc = "fetch"]
    /\ UNCHANGED <<groups, group_seq, files, channel, sem_value, floods, up, fd, gd, ln, rv,
                 authorized_users, bot_settings, user_data, tx, sr, ad, lookup_raises>>

\* UPDATE file_links SET clicks = clicks + 1 WHERE id = $1 (line 644); it
\* waits for a file delete in flight whose cascade has deleted the link row
handle_shared_link_update(t) ==
    /\ rs[t].pc = "update"
    /\ \A l \in file_links : l.id = rs[t].link_data.id => l.file_id \notin PendingFileDeletes(NULL)
    /\ file_links' = {IF l.id = rs[t].link_data.id THEN [l EXCEPT !.clicks = @ + 1] ELSE l :
                        l \in file_links}
    /\ rs' = [rs EXCEPT ![t].pc = "fetch"]
    /\ UNCHANGED <<groups, group_seq, files, channel, sem_value, floods, up, fd, gd, ln, rv,
                 authorized_users, bot_settings, user_data, tx, sr, ad, lookup_raises>>

\* the SELECT of the target: the file of a file link (lines 647-663), the
\* files of the group of a group link (lines 666-669, 685)
handle_shared_link_fetch(t) ==
    /\ rs[t].pc = "fetch"
    /\ LET rows == IF rs[t].link_data.link_type = "file"
                   THEN {f \in files : f.id = rs[t].link_data.file_id /\ f.group_id \in GroupIds}
                   ELSE FilesOf(rs[t].link_data.group_id) IN
         IF rows = {}
         THEN rs' = [rs EXCEPT ![t].pc = "done",
                               ![t].result = IF rs[t].link_data.link_type = "file"
                                             THEN "FileNotFound" ELSE "Empty"]
         ELSE rs' = [rs EXCEPT ![t].pc = IF rs[t].link_data.link_type = "file"
                                         THEN "copy" ELSE "acquire",
                               ![t].group_files = BySerial(rows)]
    /\ UNCHANGED <<groups, group_seq, files, file_links, channel, sem_value, floods, up, fd, gd, ln, rv,
                 authorized_users, bot_settings, user_data, tx, sr, ad, lookup_raises>>

\* get_file_caption and context.bot.copy_message of the file of a file link
\* (lines 654-661); when the copy raises, the except of line 687 reports an
\* error
handle_shared_link_copy(t) ==
    /\ rs[t].pc = "copy"
    /\ \/ /\ Head(rs[t].group_files) \in channel
          /\ rs' = [rs EXCEPT ![t].pc = "done", ![t].result = "Delivered",
                              ![t].group_files = <<>>,
                              ![t].delivered = {Head(rs[t].group_files)},
                              ![t].caption = get_file_caption(rs[t].user_id)]
       \/ rs' = [rs EXCEPT ![t].pc = "done", ![t].result = "Error", ![t].group_files = <<>>]
    /\ UNCHANGED <<groups, group_seq, files, file_links, channel, sem_value, floods, up, fd, gd, ln, rv,
                 authorized_users, bot_settings, user_data, tx, sr, ad, lookup_raises>>

\* async with self.upload_semaphore, once per file of the group (line 671)
handle_shared_link_acquire(t) ==
    /\ rs[t].pc = "acquire"
    /\ sem_value > 0
    /\ sem_value' = sem_value - 1
    /\ rs' = [rs EXCEPT ![t].pc = "copy_group"]
    /\ UNCHANGED <<groups, group_seq, files, file_links, channel, floods, up, fd, gd, ln, rv,
                 authorized_users, bot_settings, user_data, tx, sr, ad, lookup_raises>>

\* get_file_caption and copy_message of one file of the group; a failure is
\* logged and the loop goes on (lines 672-682)
handle_shared_link_copy_group(t) ==
    /\ rs[t].pc = "copy_group"
    /\ \/ /\ Head(rs[t].group_files) \in channel
          /\ rs' = [rs EXCEPT ![t].pc = "sleep",
                              ![t].delivered = @ \cup {Head(rs[t].group_files)},
                              ![t].caption = get_file_caption(rs[t].user_id)]
       \/ rs' = [rs EXCEPT ![t].pc = "sleep"]
    /\ UNCHANGED <<groups, group_seq, files, file_links, channel, sem_value, floods, up, fd, gd, ln, rv,
                 authorized_users, bot_settings, user_data, tx, sr, ad, lookup_raises>>

\* asyncio.sleep(BULK_UPLOAD_DELAY) is over, the semaphore block ends and the
\* loop takes the next file (lines 670, 683)
handle_shared_link_release(t) ==
    /\ rs[t].pc = "sleep"
    /\ sem_value' = sem_value + 1
    /\ rs' = [rs EXCEPT ![t].group_files = Tail(@),
                        ![t].pc = IF Tail(rs[t].group_files) = <<>> THEN "done" ELSE "acquire",
                        ![t].result = IF Tail(rs[t].group_files) = <<>> THEN "Delivered" ELSE "none"]
    /\ UNCHANGED <<groups, group_seq, files, file_links, channel, floods, up, fd, gd, ln, rv,
                 authorized_users, bot_settings, user_data, tx, sr, ad, lookup_raises>>

----------------------------------------------------------------------------
(* revoke_link_handler: lines 416-434 *)

Callers == {1, 2}

IdleRevoke == [pc |-> "idle", user_id |-> NULL, link_code |-> "", result |-> "none"]

\* mutant of LinksAfterRevoke: the owner of the link is not compared
LinksAfterRevokeAnyOwner(link_code, user_id) ==
    {l \in file_links : l.link_code # link_code}

\* DELETE FROM file_links WHERE link_code = $1 AND owner_id = $2 (line 427)
LinksAfterRevoke(link_code, user_id) ==
    {l \in file_links : ~(l.link_code = link_code /\ l.owner_id = user_id)}

\* The handler runs the DELETE in autocommit mode and answers by its row
\* count (lines 427-431).  The DELETE waits for a file delete in flight whose
\* cascade has deleted the row.
revoke_link_handler(t, user_id, link_code) ==
    /\ rv[t].pc = "idle"
    /\ IF is_user_authorized(user_id)
       THEN /\ \A l \in file_links :
                 (l.link_code = link_code /\ l.owner_id = user_id)
                   => l.file_id \notin PendingFileDeletes(NULL)
            /\ file_links' = LinksAfterRevoke(link_code, user_id)
            /\ rv' = [rv EXCEPT ![t] = [pc |-> "done", user_id |-> user_id,
                                        link_code |-> link_code,
                                        result |-> IF file_links' # file_links
                                                   THEN "Revoked" ELSE "NotFound"]]
       ELSE /\ file_links' = file_links
            /\ rv' = [rv EXCEPT ![t] = [pc |-> "done", user_id |-> user_id,
                                        link_code |-> link_code, result |-> "Unauthorized"]]
    /\ UNCHANGED <<groups, group_seq, files, channel, sem_value, floods, up, fd, gd, ln, rs,
                 authorized_users, bot_settings, user_data, tx, sr, ad, lookup_raises>>

----------------------------------------------------------------------------
(* Text messages: callback new_group, file_handler and _create_new_group, *)
(* lines 547-573, 587-590, 735-753.  A text and a group name made from it *)
(* are sequences of characters.                                            *)

IdleText ==
    [pc |-> "idle", user_id |-> NULL, text |-> <<>>, group_name |-> <<>>, result |-> "none"]

\* str.strip(): leading and trailing white space goes (line 737)
RECURSIVE LStrip(_)
LStrip(text) ==
    IF text = <<>> THEN text
    ELSE IF Head(text) = " " THEN LStrip(Tail(text)) ELSE text

RECURSIVE RStrip(_)
RStrip(text) ==
    IF text = <<>> THEN text
    ELSE IF text[Len(text)] = " " THEN RStrip(SubSeq(text, 1, Len(text) - 1)) ELSE text

Strip(text) == RStrip(LStrip(text))

\* mutant of ValidGroupName: the length of the name is not limited
ValidGroupNameAnyLength(group_name) ==
    group_name # <<>>

\* not (not group_name or len(group_name) > 50) (line 740)
ValidGroupName(group_name) ==
    group_name # <<>> /\ ~(Len(group_name) > 50)

\* callback_handler, action new_group (lines 575-590)
callback_new_group(user_id) ==
    /\ is_user_authorized(user_id)
    /\ user_data' = [user_data EXCEPT ![user_id].awaiting_group_name = TRUE]
    /\ UNCHANGED <<groups, group_seq, files, file_links, channel, sem_value, floods, up, fd, gd,
                   ln, rs, rv, authorized_users, bot_settings, tx, sr, ad, lookup_raises>>

\* file_handler for a text message (lines 547-573) up to the INSERT of
\* _create_new_group (lines 735-742).  awaiting_caption is read nowhere: a text
\* that does not name a group is answered with "Unsupported file type" or with
\* "Please select a group first" and changes nothing.
file_handler_text(t, user_id, text) ==
    /\ tx[t].pc = "idle"
    /\ IF ~is_user_authorized(user_id)
       THEN /\ tx' = [tx EXCEPT ![t] = [IdleText EXCEPT !.pc = "done", !.user_id = user_id,
                                                       !.text = text,
                                                       !.result = "Unauthorized"]]
            /\ user_data' = user_data
       ELSE IF user_data[user_id].awaiting_group_name /\ text # <<>>
       THEN /\ user_data' = [user_data EXCEPT ![user_id].awaiting_group_name = FALSE]
            /\ IF ValidGroupName(Strip(text))
               THEN tx' = [tx EXCEPT ![t] = [IdleText EXCEPT !.pc = "insert",
                                                            !.user_id = user_id,
                                                            !.text = text,
                                                            !.group_name = Strip(text)]]
               ELSE tx' = [tx EXCEPT ![t] = [IdleText EXCEPT !.pc = "done",
                                                            !.user_id = user_id,
                                                            !.text = text,
                                                            !.result = "Invalid"]]
       ELSE /\ tx' = [tx EXCEPT ![t] = [IdleText EXCEPT !.pc = "done", !.user_id = user_id,
                                                       !.text = text, !.result = "Ignored"]]
            /\ user_data' = user_data
    /\ UNCHANGED <<groups, group_seq, files, file_links, channel, sem_value, floods, up, fd, gd,
                   ln, rs, rv, authorized_users, bot_settings, sr, ad, lookup_raises>>

\* mutant of create_new_group_insert: table groups has no UNIQUE(name, owner_id)
create_new_group_insert_no_unique(t) ==
    /\ tx[t].pc = "insert"
    /\ group_seq' = group_seq + 1
    /\ groups' = groups \cup {[id |-> group_seq + 1, name |-> tx[t].group_name,
                               owner_id |-> tx[t].user_id,
                               total_files |-> 0, total_size |-> 0]}
    /\ tx' = [tx EXCEPT ![t].pc = "done", ![t].result = "Created"]
    /\ UNCHANGED <<files, file_links, channel, sem_value, floods, up, fd, gd, ln, rs, rv,
                   authorized_users, bot_settings, user_data, sr, ad, lookup_raises>>

\* INSERT INTO groups (name, owner_id) in autocommit mode and the answer
\* (lines 744-750); the sequence advances also when UNIQUE(name, owner_id)
\* rejects the row
create_new_group_insert(t) ==
    /\ tx[t].pc = "insert"
    /\ group_seq' = group_seq + 1
    /\ IF \E g \in groups : g.name = tx[t].group_name /\ g.owner_id = tx[t].user_id
       THEN /\ groups' = groups
            /\ tx' = [tx EXCEPT ![t].pc = "done", ![t].result = "Duplicate"]
       ELSE /\ groups' = groups \cup {[id |-> group_seq + 1, name |-> tx[t].group_name,
                                       owner_id |-> tx[t].user_id,
                                       total_files |-> 0, total_size |-> 0]}
            /\ tx' = [tx EXCEPT ![t].pc = "done", ![t].result = "Created"]
    /\ UNCHANGED <<files, file_links, channel, sem_value, floods, up, fd, gd, ln, rs, rv,
                   authorized_users, bot_settings, user_data, sr, ad, lookup_raises>>

----------------------------------------------------------------------------
(* Administration: add_user_handler, remove_user_handler and the caption   *)
(* callbacks of _handle_admin_callbacks, lines 487-536, 575-581, 627-628,  *)
(* 898-923                                                                 *)

IdleAdmin == [pc |-> "idle", user_id |-> NULL, current_val |-> "", result |-> "none"]

\* add_user_handler (lines 487-511): INSERT ... ON CONFLICT (user_id) DO UPDATE
\* SET is_active = TRUE
add_user_handler(admin_id, user_id) ==
    /\ is_admin(admin_id)
    /\ authorized_users' =
         IF \E r \in authorized_users : r.user_id = user_id
         THEN {IF r.user_id = user_id THEN [r EXCEPT !.is_active = TRUE] ELSE r :
                 r \in authorized_users}
         ELSE authorized_users \cup
                {[user_id |-> user_id, is_active |-> TRUE, caption_disabled |-> FALSE]}
    /\ UNCHANGED <<groups, group_seq, files, file_links, channel, sem_value, floods, up, fd, gd,
                   ln, rs, rv, bot_settings, user_data, tx, sr, ad, lookup_raises>>

\* remove_user_handler (lines 513-536): "Admins cannot be removed."; else
\* UPDATE authorized_users SET is_active = FALSE WHERE user_id = $1
remove_user_handler(admin_id, user_id) ==
    /\ is_admin(admin_id)
    /\ authorized_users' =
         IF user_id \in ADMIN_IDS THEN authorized_users
         ELSE {IF r.user_id = user_id THEN [r EXCEPT !.is_active = FALSE] ELSE r :
                 r \in authorized_users}
    /\ UNCHANGED <<groups, group_seq, files, file_links, channel, sem_value, floods, up, fd, gd,
                   ln, rs, rv, bot_settings, user_data, tx, sr, ad, lookup_raises>>

\* callback_handler with the data admin_toggle_caption (lines 575-581, 627-628)
callback_admin_toggle_caption(t, user_id) ==
    /\ ad[t].pc = "idle"
    /\ IF is_user_authorized(user_id)
       THEN ad' = [ad EXCEPT ![t] = [IdleAdmin EXCEPT !.pc = "select", !.user_id = user_id]]
       ELSE ad' = [ad EXCEPT ![t] = [IdleAdmin EXCEPT !.pc = "done", !.user_id = user_id,
                                                     !.result = "Unauthorized"]]
    /\ UNCHANGED <<groups, group_seq, files, file_links, channel, sem_value, floods, up, fd, gd,
                   ln, rs, rv, authorized_users, bot_settings, user_data, tx, sr, lookup_raises>>

\* SELECT value FROM bot_settings WHERE key = 'caption_enabled' (line 913)
admin_toggle_caption_select(t) ==
    /\ ad[t].pc = "select"
    /\ ad' = [ad EXCEPT ![t].pc = "update", ![t].current_val = bot_settings.caption_enabled]
    /\ UNCHANGED <<groups, group_seq, files, file_links, channel, sem_value, floods, up, fd, gd,
                   ln, rs, rv, authorized_users, bot_settings, user_data, tx, sr, lookup_raises>>

\* UPDATE bot_settings SET value = $1 WHERE key = 'caption_enabled' with the
\* opposite of the value read (lines 914-915)
admin_toggle_caption_update(t) ==
    /\ ad[t].pc = "update"
    /\ bot_settings' = [bot_settings EXCEPT
                          !.caption_enabled = IF ad[t].current_val = "1" THEN "0" ELSE "1"]
    /\ ad' = [ad EXCEPT ![t].pc = "done", ![t].result = "Toggled"]
    /\ UNCHANGED <<groups, group_seq, files, file_links, channel, sem_value, floods, up, fd, gd,
                   ln, rs, rv, authorized_users, user_data, tx, sr, lookup_raises>>

\* callback_handler with the data admin_set_caption (lines 575-581, 919-921):
\* "Please send the new custom caption text."
callback_admin_set_caption(user_id) ==
    /\ is_user_authorized(user_id)
    /\ user_data' = [user_data EXCEPT ![user_id].awaiting_caption = TRUE]
    /\ UNCHANGED <<groups, group_seq, files, file_links, channel, sem_value, floods, up, fd, gd,
                   ln, rs, rv, authorized_users, bot_settings, tx, sr, ad, lookup_raises>>

----------------------------------------------------------------------------
(* search_handler: lines 436-474.  File names and queries are sequences of *)
(* characters.                                                             *)

IdleSearch ==
    [pc |-> "idle", user_id |-> NULL, query |-> <<>>, results |-> <<>>,
     note |-> FALSE, result |-> "none"]

\* the case folding of ILIKE
Lower(c) == IF c = "A" THEN "a" ELSE IF c = "B" THEN "b" ELSE c

\* string ILIKE pattern: % stands for any characters, _ for any one character
RECURSIVE ILike(_, _)
ILike(string, pattern) ==
    IF pattern = <<>> THEN string = <<>>
    ELSE IF Head(pattern) = "%"
    THEN \E k \in 0..Len(string) : ILike(SubSeq(string, k + 1, Len(string)), Tail(pattern))
    ELSE IF string = <<>> THEN FALSE
    ELSE IF Head(pattern) = "_" THEN ILike(Tail(string), Tail(pattern))
    ELSE Lower(Head(string)) = Lower(Head(pattern)) /\ ILike(Tail(string), Tail(pattern))

\* the code point of a character
CharCode(c) ==
    CASE c = " " -> 32 [] c = "A" -> 65 [] c = "B" -> 66 [] c = "_" -> 95
      [] c = "a" -> 97 [] c = "b" -> 98 [] c = "c" -> 99 [] c = "p" -> 112
      [] c = "x" -> 120 [] c = "y" -> 121 [] OTHER -> 48

\* the first name is not after the second in the order of ORDER BY g.name,
\* character by character
RECURSIVE NameBefore(_, _)
NameBefore(a, b) ==
    IF a = <<>> THEN TRUE
    ELSE IF b = <<>> THEN FALSE
    ELSE IF CharCode(Head(a)) # CharCode(Head(b)) THEN CharCode(Head(a)) < CharCode(Head(b))
    ELSE NameBefore(Tail(a), Tail(b))

\* SELECT f.file_name, f.serial_number, g.name as group_name, f.file_size FROM
\* files f JOIN groups g ON f.group_id = g.id WHERE g.owner_id = $1 AND
\* f.file_name ILIKE $2 (lines 450-453)
SearchRows(user_id, search_term) ==
    {[file_name |-> f.file_name, serial_number |-> f.serial_number,
      group_name |-> g.name, file_size |-> f.file_size] :
        <<f, g>> \in {w \in files \X groups : /\ w[1].group_id = w[2].id
                                              /\ w[2].owner_id = user_id
                                              /\ ILike(w[1].file_name, search_term)}}

\* ORDER BY g.name, f.serial_number (line 454)
RECURSIVE OrderRows(_)
OrderRows(rows) ==
    IF rows = {} THEN <<>>
    ELSE LET r == CHOOSE x \in rows : \A y \in rows :
                     \/ x.group_name # y.group_name /\ NameBefore(x.group_name, y.group_name)
                     \/ x.group_name = y.group_name /\ x.serial_number <= y.serial_number
         IN <<r>> \o OrderRows(rows \ {r})

\* LIMIT 25 (line 455)
Limit(rows) == SubSeq(rows, 1, IF Len(rows) < 25 THEN Len(rows) ELSE 25)

\* search_handler up to the SELECT (lines 436-445); without arguments it
\* answers with the usage text
search_handler(t, user_id, query) ==
    /\ sr[t].pc = "idle"
    /\ IF ~is_user_authorized(user_id)
       THEN sr' = [sr EXCEPT ![t] = [IdleSearch EXCEPT !.pc = "done", !.user_id = user_id,
                                                      !.query = query,
                                                      !.result = "Unauthorized"]]
       ELSE IF query = <<>>
       THEN sr' = [sr EXCEPT ![t] = [IdleSearch EXCEPT !.pc = "done", !.user_id = user_id,
                                                      !.result = "Usage"]]
       ELSE sr' = [sr EXCEPT ![t] = [IdleSearch EXCEPT !.pc = "select", !.user_id = user_id,
                                                      !.query = query]]
    /\ UNCHANGED <<groups, group_seq, files, file_links, channel, sem_value, floods, up, fd, gd,
                   ln, rs, rv, authorized_users, bot_settings, user_data, tx, ad, lookup_raises>>

\* the SELECT with search_term = f"%{query}%" and the answer: the rows, and
\* the note "Showing top 25 results." if len(results) == 25 (lines 445-469)
search_select(t) ==
    /\ sr[t].pc = "select"
    /\ LET results == Limit(OrderRows(SearchRows(sr[t].user_id,
                                                 <<"%">> \o sr[t].query \o <<"%">>))) IN
         sr' = [sr EXCEPT ![t].pc = "done",
                          ![t].results = results,
                          ![t].note = (Len(results) = 25),
                          ![t].result = IF results = <<>> THEN "NoResults" ELSE "Results"]
    /\ UNCHANGED <<groups, group_seq, files, file_links, channel, sem_value, floods, up, fd, gd,
                   ln, rs, rv, authorized_users, bot_settings, user_data, tx, ad, lookup_raises>>

----------------------------------------------------------------------------
(* The registry specification: uploads, file deletions and group deletions  *)
(* of one user in the group named "a", which is created, deleted and        *)
(* created again, interleaved statement by statement.  The storage channel  *)
(* does not rate-limit here: floods = 0.                                     *)

UploadTasks == {1, 2}
FileDeleteTasks == {1, 2}
GroupDeleteTasks == {1}
Serials == {1, 2}

IdleUpload == [NewUpload(NULL, NULL, NULL, 0) EXCEPT !.pc = "idle"]

InitTasks(uploads, fdeletes, gdeletes, links, resolves, revokes) ==
    /\ groups = {}
    /\ group_seq = 0
    /\ files = {}
    /\ file_links = {}
    /\ channel = {}
    /\ sem_value = UPLOAD_CONCURRENCY
    /\ floods = 0
    /\ up = [u \in uploads |-> IdleUpload]
    /\ fd = [d \in fdeletes |-> IdleDelete]
    /\ gd = [t \in gdeletes |-> IdleGroupDelete]
    /\ ln = [t \in links |-> IdleLink]
    /\ rs = [t \in resolves |-> IdleResolve]
    /\ rv = [t \in revokes |-> IdleRevoke]
    /\ InitAccess({1, 2})

Init == InitTasks(UploadTasks, FileDeleteTasks, GroupDeleteTasks, {}, {}, {})

Next ==
    \/ \E user_id \in Users, group_name \in GroupNames : create_new_group(user_id, group_name)
    \/ \E u \in DOMAIN up, user_id \in Users, g \in 1..MaxGroups, size \in Sizes :
         file_handler(u, user_id, g, u, size)
    \/ \E u \in DOMAIN up : process_file_upload_acquire(u)
    \/ \E u \in DOMAIN up : process_file_upload_forward_ok(u)
    \/ \E u \in DOMAIN up : process_file_upload_forward_error(u)
    \/ \E u \in DOMAIN up : process_file_upload_select(u)
    \/ \E u \in DOMAIN up : process_file_upload_insert(u)
    \/ \E u \in DOMAIN up : process_file_upload_update(u)
    \/ \E u \in DOMAIN up : process_file_upload_finish(u)
    \/ \E d \in DOMAIN fd, user_id \in Users, group_name \in GroupNames, serial \in Serials :
         confirm_delete_file(d, user_id, group_name, serial)
    \/ \E d \in DOMAIN fd : perform_file_delete_select(d)
    \/ \E d \in DOMAIN fd : perform_file_delete_delete(d)
    \/ \E d \in DOMAIN fd : perform_file_delete_update(d)
    \/ \E d \in DOMAIN fd : perform_file_delete_remote(d)
    \/ \E t \in DOMAIN gd, user_id \in Users, group_name \in GroupNames :
         confirm_delete_group(t, user_id, group_name)
    \/ \E t \in DOMAIN gd : perform_group_delete_select(t)
    \/ \E t \in DOMAIN gd : perform_group_delete_delete(t)
    \/ \E t \in DOMAIN gd : perform_group_delete_remote(t)
    \/ \E t \in DOMAIN gd : perform_group_delete_report(t)
    \/ \E d \in DOMAIN fd, t \in DOMAIN gd : deadlock_detected(d, t)

Spec == Init /\ [][Next]_vars

----------------------------------------------------------------------------
(* The link specification: one upload, one file deletion, one group         *)
(* deletion, two link requests and one link resolution.  The two requests   *)
(* draw different codes; colliding codes are the subject of the collision   *)
(* specification.                                                           *)

InitLinks == InitTasks({1}, {1}, {1}, {1, 2}, {1}, {})

\* the code generate_id gives link request t when no two requests draw the
\* same code
OwnCode(t) == IF t = 1 THEN "c1" ELSE "c2"

NextLinks ==
    \/ \E user_id \in Users, group_name \in GroupNames : create_new_group(user_id, group_name)
    \/ \E u \in DOMAIN up, user_id \in Users, g \in 1..MaxGroups :
         file_handler(u, user_id, g, u, 1)
    \/ \E u \in DOMAIN up : process_file_upload_acquire(u)
    \/ \E u \in DOMAIN up : process_file_upload_forward_ok(u)
    \/ \E u \in DOMAIN up : process_file_upload_forward_error(u)
    \/ \E u \in DOMAIN up : process_file_upload_select(u)
    \/ \E u \in DOMAIN up : process_file_upload_insert(u)
    \/ \E u \in DOMAIN up : process_file_upload_update(u)
    \/ \E u \in DOMAIN up : process_file_upload_finish(u)
    \/ \E d \in DOMAIN fd, user_id \in Users, group_name \in GroupNames :
         confirm_delete_file(d, user_id, group_name, 1)
    \/ \E d \in DOMAIN fd : perform_file_delete_select(d)
    \/ \E d \in DOMAIN fd : perform_file_delete_delete(d)
    \/ \E d \in DOMAIN fd : perform_file_delete_update(d)
    \/ \E d \in DOMAIN fd : perform_file_delete_remote(d)
    \/ \E t \in DOMAIN gd, user_id \in Users, group_name \in GroupNames :
         confirm_delete_group(t, user_id, group_name)
    \/ \E t \in DOMAIN gd : perform_group_delete_select(t)
    \/ \E t \in DOMAIN gd : perform_group_delete_delete(t)
    \/ \E t \in DOMAIN gd : perform_group_delete_remote(t)
    \/ \E t \in DOMAIN gd : perform_group_delete_report(t)
    \/ \E d \in DOMAIN fd, t \in DOMAIN gd : deadlock_detected(d, t)
    \/ \E t \in DOMAIN ln, user_id \in Users, group_name \in GroupNames :
         getlink_handler(t, user_id, group_name, 1)
    \/ \E t \in DOMAIN ln, user_id \in Users, group_name \in GroupNames :
         getgrouplink_handler(t, user_id, group_name)
    \/ \E t \in DOMAIN ln : getlink_lookup(t)
    \/ \E t \in DOMAIN ln : create_link(t, OwnCode(t))
    \/ \E t \in DOMAIN rs, user_id \in Users, link_code \in Codes :
         start_handler(t, user_id, link_code)
    \/ \E t \in DOMAIN rs : handle_shared_link_select(t)
    \/ \E t \in DOMAIN rs : handle_shared_link_update(t)
    \/ \E t \in DOMAIN rs : handle_shared_link_fetch(t)
    \/ \E t \in DOMAIN rs : handle_shared_link_copy(t)
    \/ \E t \in DOMAIN rs : handle_shared_link_acquire(t)
    \/ \E t \in DOMAIN rs : handle_shared_link_copy_group(t)
    \/ \E t \in DOMAIN rs : handle_shared_link_release(t)

SpecLinks == InitLinks /\ [][NextLinks]_vars

----------------------------------------------------------------------------
(* The sharing specification: group "a" of user 1 holds one saved file; one  *)
(* link request, two link resolutions and one revocation run next to the    *)
(* deletion of the file and of the group.  The revocation comes from the     *)
(* owner or from another caller.                                             *)

InitSaved(fdeletes, gdeletes, links, resolves, revokes) ==
    /\ groups = {[id |-> 1, name |-> "a", owner_id |-> 1, total_files |-> 1, total_size |-> 1]}
    /\ group_seq = 1
    /\ files = {[id |-> 1, group_id |-> 1, serial_number |-> 1, unique_id |-> 1,
                 file_size |-> 1, storage_message_id |-> 1, file_name |-> PhotoName(1)]}
    /\ file_links = {}
    /\ channel = {1}
    /\ sem_value = UPLOAD_CONCURRENCY
    /\ floods = 0
    /\ up = [u \in {1} |-> [NewUpload(1, 1, 1, 1) EXCEPT !.pc = "done", !.result = "Saved"]]
    /\ fd = [d \in fdeletes |-> IdleDelete]
    /\ gd = [t \in gdeletes |-> IdleGroupDelete]
    /\ ln = [t \in links |-> IdleLink]
    /\ rs = [t \in resolves |-> IdleResolve]
    /\ rv = [t \in revokes |-> IdleRevoke]
    /\ InitAccess({1, 2})

InitShare == InitSaved({1}, {1}, {1}, {1, 2}, {1})

NextShare ==
    \/ \E d \in DOMAIN fd, user_id \in Users, group_name \in GroupNames :
         confirm_delete_file(d, user_id, group_name, 1)
    \/ \E d \in DOMAIN fd : perform_file_delete_select(d)
    \/ \E d \in DOMAIN fd : perform_file_delete_delete(d)
    \/ \E d \in DOMAIN fd : perform_file_delete_update(d)
    \/ \E d \in DOMAIN fd : perform_file_delete_remote(d)
    \/ \E t \in DOMAIN gd, user_id \in Users, group_name \in GroupNames :
         confirm_delete_group(t, user_id, group_name)
    \/ \E t \in DOMAIN gd : perform_group_delete_select(t)
    \/ \E t \in DOMAIN gd : perform_group_delete_delete(t)
    \/ \E t \in DOMAIN gd : perform_group_delete_remote(t)
    \/ \E t \in DOMAIN gd : perform_group_delete_report(t)
    \/ \E d \in DOMAIN fd, t \in DOMAIN gd : deadlock_detected(d, t)
    \/ \E t \in DOMAIN ln, user_id \in Users, group_name \in GroupNames :
         getlink_handler(t, user_id, group_name, 1)
    \/ \E t \in DOMAIN ln, user_id \in Users, group_name \in GroupNames :
         getgrouplink_handler(t, user_id, group_name)
    \/ \E t \in DOMAIN ln : getlink_lookup(t)
    \/ \E t \in DOMAIN ln, link_code \in Codes : create_link(t, link_code)
    \/ \E t \in DOMAIN rs, user_id \in Users, link_code \in Codes :
         start_handler(t, user_id, link_code)
    \/ \E t \in DOMAIN rs : handle_shared_link_select(t)
    \/ \E t \in DOMAIN rs : handle_shared_link_update(t)
    \/ \E t \in DOMAIN rs : handle_shared_link_fetch(t)
    \/ \E t \in DOMAIN rs : handle_shared_link_copy(t)
    \/ \E t \in DOMAIN rs : handle_shared_link_acquire(t)
    \/ \E t \in DOMAIN rs : handle_shared_link_copy_group(t)
    \/ \E t \in DOMAIN rs : handle_shared_link_release(t)
    \/ \E t \in DOMAIN rv, user_id \in Callers, link_code \in Codes :
         revoke_link_handler(t, user_id, link_code)

SpecShare == InitShare /\ [][NextShare]_vars

----------------------------------------------------------------------------
(* The collision specification: two link requests for the saved file or its *)
(* group, every generated code drawn from the same two codes.               *)

InitCollide == InitSaved({}, {}, {1, 2}, {}, {})

NextCollide ==
    \/ \E t \in DOMAIN ln, user_id \in Users, group_name \in GroupNames :
         getlink_handler(t, user_id, group_name, 1)
    \/ \E t \in DOMAIN ln, user_id \in Users, group_name \in GroupNames :
         getgrouplink_handler(t, user_id, group_name)
    \/ \E t \in DOMAIN ln : getlink_lookup(t)
    \/ \E t \in DOMAIN ln, link_code \in Codes : create_link(t, link_code)

SpecCollide == InitCollide /\ [][NextCollide]_vars

----------------------------------------------------------------------------
(* The catalogue specification: two users create groups named "a" and two   *)
(* uploads go into either group; the two files sent may be the same file,   *)
(* which Telegram tells by file_unique_id.                                   *)

ContentKeys == {1, 2}

InitCatalog == InitTasks({1, 2}, {}, {}, {}, {}, {})

NextCatalog ==
    \/ \E user_id \in Callers, group_name \in GroupNames : create_new_group(user_id, group_name)
    \/ \E u \in DOMAIN up, user_id \in Callers, g \in 1..MaxGroups,
          unique_id \in ContentKeys, size \in Sizes :
         file_handler(u, user_id, g, unique_id, size)
    \/ \E u \in DOMAIN up : process_file_upload_acquire(u)
    \/ \E u \in DOMAIN up : process_file_upload_forward_ok(u)
    \/ \E u \in DOMAIN up : process_file_upload_forward_error(u)
    \/ \E u \in DOMAIN up : process_file_upload_select(u)
    \/ \E u \in DOMAIN up : process_file_upload_insert(u)
    \/ \E u \in DOMAIN up : process_file_upload_update(u)
    \/ \E u \in DOMAIN up : process_file_upload_finish(u)

SpecCatalog == InitCatalog /\ [][NextCatalog]_vars

----------------------------------------------------------------------------
(* The naming specification: two users press "new group" and send texts:    *)
(* nothing, blanks, one character, 50 characters or 51 characters, with or   *)
(* without blanks around them.                                               *)

TextTasks == {1, 2, 3}

Spaces(n) == [i \in 1..n |-> " "]

\* n characters, the second of them a blank when there are more than two
Letters(n) == [i \in 1..n |-> IF i = 2 /\ n > 2 THEN " " ELSE "x"]

\* blanks before, characters, blanks after
TextShapes ==
    {<<0, 0, 0>>, <<2, 0, 0>>, <<0, 1, 0>>, <<1, 1, 1>>,
     <<0, 50, 0>>, <<1, 50, 1>>, <<0, 51, 0>>, <<1, 51, 0>>}

Texts == {Spaces(w[1]) \o Letters(w[2]) \o Spaces(w[3]) : w \in TextShapes}

InitNames ==
    /\ groups = {}
    /\ group_seq = 0
    /\ files = {}
    /\ file_links = {}
    /\ channel = {}
    /\ sem_value = UPLOAD_CONCURRENCY
    /\ floods = 0
    /\ up = <<>>
    /\ fd = <<>>
    /\ gd = <<>>
    /\ ln = <<>>
    /\ rs = <<>>
    /\ rv = <<>>
    /\ authorized_users = SeededUsers({1, 2})
    /\ bot_settings = SeededSettings
    /\ lookup_raises = FALSE
    /\ user_data = [a \in Accounts |-> NoSession]
    /\ tx = [t \in TextTasks |-> IdleText]
    /\ sr = <<>>
    /\ ad = <<>>

NextNames ==
    \/ \E user_id \in Callers : callback_new_group(user_id)
    \/ \E t \in DOMAIN tx, user_id \in Callers, text \in Texts :
         file_handler_text(t, user_id, text)
    \/ \E t \in DOMAIN tx : create_new_group_insert(t)

SpecNames == InitNames /\ [][NextNames]_vars

----------------------------------------------------------------------------
(* The walk-through specification: user 1 sends one update after another,   *)
(* each when the handlers of the earlier ones have returned: a new group     *)
(* "a", a file of 2,000,000 bytes, then a file of 3,000,000 bytes, then a    *)
(* link request for serial 1, then resolutions of its code and the deletion  *)
(* of serial 1 in any order.                                                 *)

\* no handler is between its first and its last step
Quiet ==
    /\ \A u \in DOMAIN up : up[u].pc \in {"idle", "done"}
    /\ \A d \in DOMAIN fd : fd[d].pc \in {"idle", "done"}
    /\ \A t \in DOMAIN gd : gd[t].pc \in {"idle", "done"}
    /\ \A t \in DOMAIN ln : ln[t].pc \in {"idle", "done"}
    /\ \A t \in DOMAIN rs : rs[t].pc \in {"idle", "done"}
    /\ \A t \in DOMAIN tx : tx[t].pc \in {"idle", "done"}
    /\ \A t \in DOMAIN sr : sr[t].pc \in {"idle", "done"}
    /\ \A t \in DOMAIN ad : ad[t].pc \in {"idle", "done"}

\* the size of the file upload u sends
WalkSize(u) == IF u = 1 THEN 2000000 ELSE 3000000

InitWalk == InitTasks({1, 2}, {1}, {}, {1}, {1, 2}, {})

NextWalk ==
    \/ Quiet /\ groups = {} /\ create_new_group(1, "a")
    \/ \E u \in DOMAIN up :
         /\ Quiet
         /\ groups # {}
         /\ u = 1 \/ up[1].pc = "done"
         /\ file_handler(u, 1, 1, u, WalkSize(u))
    \/ \E u \in DOMAIN up : process_file_upload_acquire(u)
    \/ \E u \in DOMAIN up : process_file_upload_forward_ok(u)
    \/ \E u \in DOMAIN up : process_file_upload_forward_error(u)
    \/ \E u \in DOMAIN up : process_file_upload_select(u)
    \/ \E u \in DOMAIN up : process_file_upload_insert(u)
    \/ \E u \in DOMAIN up : process_file_upload_update(u)
    \/ \E u \in DOMAIN up : process_file_upload_finish(u)
    \/ \E t \in DOMAIN ln : Quiet /\ up[2].pc = "done" /\ getlink_handler(t, 1, "a", 1)
    \/ \E t \in DOMAIN ln : getlink_lookup(t)
    \/ \E t \in DOMAIN ln : create_link(t, "c1")
    \/ \E t \in DOMAIN rs : Quiet /\ ln[1].pc = "done" /\ start_handler(t, 1, "c1")
    \/ \E t \in DOMAIN rs : handle_shared_link_select(t)
    \/ \E t \in DOMAIN rs : handle_shared_link_update(t)
    \/ \E t \in DOMAIN rs : handle_shared_link_fetch(t)
    \/ \E t \in DOMAIN rs : handle_shared_link_copy(t)
    \/ \E d \in DOMAIN fd : Quiet /\ ln[1].pc = "done" /\ confirm_delete_file(d, 1, "a", 1)
    \/ \E d \in DOMAIN fd : perform_file_delete_select(d)
    \/ \E d \in DOMAIN fd : perform_file_delete_delete(d)
    \/ \E d \in DOMAIN fd : perform_file_delete_update(d)
    \/ \E d \in DOMAIN fd : perform_file_delete_remote(d)

SpecWalk == InitWalk /\ [][NextWalk]_vars

----------------------------------------------------------------------------
(* The search specification: user 1 owns groups "b" (id 1) and "a" (id 2)   *)
(* with n files spread over them, the first k of them named "Ab" and the     *)
(* others "c"; user 2 owns group "a" (id 3) with one file named "ab".  Two   *)
(* searches are made.                                                        *)

\* <<n, k>>: user 1 has n files, k of them named "Ab"
SearchCases == {<<3, 2>>, <<26, 24>>, <<26, 25>>, <<27, 26>>}

Queries == {<<>>, <<"a">>, <<"B">>, <<"a", "b">>, <<"b", "a">>, <<"_">>}

SearchTasks == {1, 2}

\* file i of user 1: the odd ones in group 1, the even ones in group 2
SearchFile(i, k) ==
    [id |-> i, group_id |-> IF i % 2 = 1 THEN 1 ELSE 2, serial_number |-> (i + 1) \div 2,
     unique_id |-> i, file_size |-> 1, storage_message_id |-> i,
     file_name |-> IF i <= k THEN <<"A", "b">> ELSE <<"c">>]

InitSearch ==
    \E w \in SearchCases :
        /\ groups = {[id |-> 1, name |-> <<"b">>, owner_id |-> 1,
                      total_files |-> (w[1] + 1) \div 2, total_size |-> (w[1] + 1) \div 2],
                     [id |-> 2, name |-> <<"a">>, owner_id |-> 1,
                      total_files |-> w[1] \div 2, total_size |-> w[1] \div 2],
                     [id |-> 3, name |-> <<"a">>, owner_id |-> 2,
                      total_files |-> 1, total_size |-> 1]}
        /\ group_seq = 3
        /\ files = {SearchFile(i, w[2]) : i \in 1..w[1]} \cup
                   {[id |-> 100, group_id |-> 3, serial_number |-> 1, unique_id |-> 100,
                     file_size |-> 1, storage_message_id |-> 100,
                     file_name |-> <<"a", "b">>]}
        /\ file_links = {}
        /\ channel = {f.storage_message_id : f \in files}
        /\ sem_value = UPLOAD_CONCURRENCY
        /\ floods = 0
        /\ up = <<>>
        /\ fd = <<>>
        /\ gd = <<>>
        /\ ln = <<>>
        /\ rs = <<>>
        /\ rv = <<>>
        /\ authorized_users = SeededUsers({1, 2})
        /\ bot_settings = SeededSettings
        /\ lookup_raises = FALSE
        /\ user_data = [a \in Accounts |-> NoSession]
        /\ tx = <<>>
        /\ sr = [t \in SearchTasks |-> IdleSearch]
        /\ ad = <<>>

NextSearch ==
    \/ \E t \in DOMAIN sr, user_id \in Callers, query \in Queries :
         search_handler(t, user_id, query)
    \/ \E t \in DOMAIN sr : search_select(t)

SpecSearch == InitSearch /\ [][NextSearch]_vars

----------------------------------------------------------------------------
(* The settings specification: group "a" of user 1 holds one saved file     *)
(* with a file link "c1".  The administrator toggles the captions twice,     *)
(* asks to set the custom caption and sends a text; user 1 resolves the      *)
(* link twice.                                                               *)

CaptionTexts == {<<"t", "1">>}

InitSettings ==
    /\ groups = {[id |-> 1, name |-> "a", owner_id |-> 1, total_files |-> 1, total_size |-> 1]}
    /\ group_seq = 1
    /\ files = {[id |-> 1, group_id |-> 1, serial_number |-> 1, unique_id |-> 1,
                 file_size |-> 1, storage_message_id |-> 1, file_name |-> PhotoName(1)]}
    /\ file_links = {[id |-> 1, link_code |-> "c1", file_id |-> 1, group_id |-> NULL,
                      link_type |-> "file", owner_id |-> 1, clicks |-> 0, is_active |-> TRUE]}
    /\ channel = {1}
    /\ sem_value = UPLOAD_CONCURRENCY
    /\ floods = 0
    /\ up = <<>>
    /\ fd = <<>>
    /\ gd = <<>>
    /\ ln = <<>>
    /\ rs = [t \in {1, 2} |-> IdleResolve]
    /\ rv = <<>>
    /\ authorized_users = SeededUsers({1, 2})
    /\ bot_settings = SeededSettings
    /\ lookup_raises = FALSE
    /\ user_data = [a \in Accounts |-> NoSession]
    /\ tx = [t \in {1} |-> IdleText]
    /\ sr = <<>>
    /\ ad = [t \in {1, 2} |-> IdleAdmin]

NextSettings ==
    \/ \E t \in DOMAIN ad, user_id \in ADMIN_IDS : callback_admin_toggle_caption(t, user_id)
    \/ \E t \in DOMAIN ad : admin_toggle_caption_select(t)
    \/ \E t \in DOMAIN ad : admin_toggle_caption_update(t)
    \/ \E user_id \in ADMIN_IDS : callback_admin_set_caption(user_id)
    \/ \E t \in DOMAIN tx, user_id \in ADMIN_IDS, text \in CaptionTexts :
         file_handler_text(t, user_id, text)
    \/ \E t \in DOMAIN rs : start_handler(t, 1, "c1")
    \/ \E t \in DOMAIN rs : handle_shared_link_select(t)
    \/ \E t \in DOMAIN rs : handle_shared_link_update(t)
    \/ \E t \in DOMAIN rs : handle_shared_link_fetch(t)
    \/ \E t \in DOMAIN rs : handle_shared_link_copy(t)

SpecSettings == InitSettings /\ [][NextSettings]_vars

----------------------------------------------------------------------------
(* The access specification: user 1 owns group "x" with one saved file and  *)
(* a file link "c1", and sends one update of each kind, each when the        *)
(* handlers of the earlier ones have returned, as the Application built at   *)
(* line 1007 dispatches them.  Meanwhile the administrator takes user 1 off  *)
(* the allow-list and puts them back, and tries to take an administrator     *)
(* off.                                                                      *)

InitAuth ==
    /\ groups = {[id |-> 1, name |-> <<"x">>, owner_id |-> 1,
                  total_files |-> 1, total_size |-> 1]}
    /\ group_seq = 1
    /\ files = {[id |-> 9, group_id |-> 1, serial_number |-> 1, unique_id |-> 9,
                 file_size |-> 1, storage_message_id |-> 9, file_name |-> PhotoName(9)]}
    /\ file_links = {[id |-> 9, link_code |-> "c1", file_id |-> 9, group_id |-> NULL,
                      link_type |-> "file", owner_id |-> 1, clicks |-> 0, is_active |-> TRUE]}
    /\ channel = {9}
    /\ sem_value = UPLOAD_CONCURRENCY
    /\ floods = 0
    /\ up = [u \in {1} |-> IdleUpload]
    /\ fd = [d \in {1} |-> IdleDelete]
    /\ gd = [t \in {1} |-> IdleGroupDelete]
    /\ ln = [t \in {1} |-> IdleLink]
    /\ rs = [t \in {1} |-> IdleResolve]
    /\ rv = [t \in {1} |-> IdleRevoke]
    /\ authorized_users = SeededUsers({1})
    /\ bot_settings = SeededSettings
    /\ lookup_raises = FALSE
    /\ user_data = [a \in Accounts |-> NoSession]
    /\ tx = [t \in {1} |-> IdleText]
    /\ sr = [t \in {1} |-> IdleSearch]
    /\ ad = <<>>

NextAuth ==
    \/ \E admin_id \in ADMIN_IDS, user_id \in {1} \cup ADMIN_IDS :
         remove_user_handler(admin_id, user_id)
    \/ \E admin_id \in ADMIN_IDS : add_user_handler(admin_id, 1)
    \/ Quiet /\ callback_new_group(1)
    \/ \E t \in DOMAIN tx : Quiet /\ file_handler_text(t, 1, <<"y">>)
    \/ \E t \in DOMAIN tx : create_new_group_insert(t)
    \/ \E u \in DOMAIN up : Quiet /\ file_handler(u, 1, 1, u, 1)
    \/ \E u \in DOMAIN up : process_file_upload_acquire(u)
    \/ \E u \in DOMAIN up : process_file_upload_forward_ok(u)
    \/ \E u \in DOMAIN up : process_file_upload_forward_error(u)
    \/ \E u \in DOMAIN up : process_file_upload_select(u)
    \/ \E u \in DOMAIN up : process_file_upload_insert(u)
    \/ \E u \in DOMAIN up : process_file_upload_update(u)
    \/ \E u \in DOMAIN up : process_file_upload_finish(u)
    \/ \E d \in DOMAIN fd : Quiet /\ confirm_delete_file(d, 1, <<"x">>, 1)
    \/ \E d \in DOMAIN fd : perform_file_delete_select(d)
    \/ \E d \in DOMAIN fd : perform_file_delete_delete(d)
    \/ \E d \in DOMAIN fd : perform_file_delete_update(d)
    \/ \E d \in DOMAIN fd : perform_file_delete_remote(d)
    \/ \E t \in DOMAIN gd : Quiet /\ confirm_delete_group(t, 1, <<"x">>)
    \/ \E t \in DOMAIN gd : perform_group_delete_select(t)
    \/ \E t \in DOMAIN gd : perform_group_delete_delete(t)
    \/ \E t \in DOMAIN gd : perform_group_delete_remote(t)
    \/ \E t \in DOMAIN gd : perform_group_delete_report(t)
    \/ \E t \in DOMAIN ln : Quiet /\ getlink_handler(t, 1, <<"x">>, 1)
    \/ \E t \in DOMAIN ln : getlink_lookup(t)
    \/ \E t \in DOMAIN ln : create_link(t, "c2")
    \/ \E t \in DOMAIN rs : Quiet /\ start_handler(t, 1, "c1")
    \/ \E t \in DOMAIN rs : handle_shared_link_select(t)
    \/ \E t \in DOMAIN rs : handle_shared_link_update(t)
    \/ \E t \in DOMAIN rs : handle_shared_link_fetch(t)
    \/ \E t \in DOMAIN rs : handle_shared_link_copy(t)
    \/ \E t \in DOMAIN rv : Quiet /\ revoke_link_handler(t, 1, "c1")
    \/ \E t \in DOMAIN sr : Quiet /\ search_handler(t, 1, <<"p">>)
    \/ \E t \in DOMAIN sr : search_select(t)

SpecAuth == InitAuth /\ [][NextAuth]_vars

(* The outage specification: user 1, active on the allow-list, owns group  *)
(* "x" with one saved file and a file link "c1", and administrator 3 owns   *)
(* the empty group "z".  Each of them sends an upload, a file deletion, a   *)
(* link resolution, a revocation and a search, each when the handlers of    *)
(* the earlier ones have returned, while the lookup of is_user_authorized   *)
(* starts and stops raising.                                                *)

\* the users who send updates during the outage
OutageCallers == {1} \cup ADMIN_IDS

\* the group a caller of the outage specification has selected for upload
OutageGroup(user_id) == IF user_id = 1 THEN 1 ELSE 2

InitOutage ==
    /\ groups = {[id |-> 1, name |-> <<"x">>, owner_id |-> 1,
                  total_files |-> 1, total_size |-> 1],
                 [id |-> 2, name |-> <<"z">>, owner_id |-> 3,
                  total_files |-> 0, total_size |-> 0]}
    /\ group_seq = 2
    /\ files = {[id |-> 9, group_id |-> 1, serial_number |-> 1, unique_id |-> 9,
                 file_size |-> 1, storage_message_id |-> 9, file_name |-> PhotoName(9)]}
    /\ file_links = {[id |-> 9, link_code |-> "c1", file_id |-> 9, group_id |-> NULL,
                      link_type |-> "file", owner_id |-> 1, clicks |-> 0, is_active |-> TRUE]}
    /\ channel = {9}
    /\ sem_value = UPLOAD_CONCURRENCY
    /\ floods = 0
    /\ up = [u \in {1} |-> IdleUpload]
    /\ fd = [d \in {1} |-> IdleDelete]
    /\ gd = [t \in {1} |-> IdleGroupDelete]
    /\ ln = [t \in {1} |-> IdleLink]
    /\ rs = [t \in {1} |-> IdleResolve]
    /\ rv = [t \in {1} |-> IdleRevoke]
    /\ authorized_users = SeededUsers({1})
    /\ bot_settings = SeededSettings
    /\ lookup_raises = FALSE
    /\ user_data = [a \in Accounts |-> NoSession]
    /\ tx = [t \in {1} |-> IdleText]
    /\ sr = [t \in {1} |-> IdleSearch]
    /\ ad = <<>>

NextOutage ==
    \/ Quiet /\ lookup_fault
    \/ \E u \in DOMAIN up, user_id \in OutageCallers :
         Quiet /\ file_handler(u, user_id, OutageGroup(user_id), u, 1)
    \/ \E u \in DOMAIN up : process_file_upload_acquire(u)
    \/ \E u \in DOMAIN up : process_file_upload_forward_ok(u)
    \/ \E u \in DOMAIN up : process_file_upload_select(u)
    \/ \E u \in DOMAIN up : process_file_upload_insert(u)
    \/ \E u \in DOMAIN up : process_file_upload_update(u)
    \/ \E u \in DOMAIN up : process_file_upload_finish(u)
    \/ \E d \in DOMAIN fd, user_id \in OutageCallers :
         Quiet /\ confirm_delete_file(d, user_id, <<"x">>, 1)
    \/ \E d \in DOMAIN fd : perform_file_delete_select(d)
    \/ \E d \in DOMAIN fd : perform_file_delete_delete(d)
    \/ \E d \in DOMAIN fd : perform_file_delete_update(d)
    \/ \E d \in DOMAIN fd : perform_file_delete_remote(d)
    \/ \E t \in DOMAIN rs, user_id \in OutageCallers : Quiet /\ start_handler(t, user_id, "c1")
    \/ \E t \in DOMAIN rs : handle_shared_link_select(t)
    \/ \E t \in DOMAIN rs : handle_shared_link_update(t)
    \/ \E t \in DOMAIN rs : handle_shared_link_fetch(t)
    \/ \E t \in DOMAIN rs : handle_shared_link_copy(t)
    \/ \E t \in DOMAIN rv, user_id \in OutageCallers :
         Quiet /\ revoke_link_handler(t, user_id, "c1")
    \/ \E t \in DOMAIN sr, user_id \in OutageCallers :
         Quiet /\ search_handler(t, user_id, <<"p">>)
    \/ \E t \in DOMAIN sr : search_select(t)

SpecOutage == InitOutage /\ [][NextOutage]_vars

(* The owners specification: user 1 owns groups "a" (id 1) and "b" (id 3),   *)
(* user 2 owns a group "a" (id 2); each group holds one saved file with      *)
(* serial number 1.  Either user asks for two links and deletes a file and   *)
(* a group, all by name.                                                     *)

OwnerGroupNames == {"a", "b"}

\* the saved file of group id
SavedFile(id) ==
    [id |-> id, group_id |-> id, serial_number |-> 1, unique_id |-> id,
     file_size |-> 1, storage_message_id |-> id, file_name |-> PhotoName(id)]

InitOwners ==
    /\ groups = {[id |-> 1, name |-> "a", owner_id |-> 1, total_files |-> 1, total_size |-> 1],
                 [id |-> 2, name |-> "a", owner_id |-> 2, total_files |-> 1, total_size |-> 1],
                 [id |-> 3, name |-> "b", owner_id |-> 1, total_files |-> 1, total_size |-> 1]}
    /\ group_seq = 3
    /\ files = {SavedFile(id) : id \in 1..3}
    /\ file_links = {}
    /\ channel = 1..3
    /\ sem_value = UPLOAD_CONCURRENCY
    /\ floods = 0
    /\ up = [u \in 1..3 |-> [NewUpload(IF u = 2 THEN 2 ELSE 1, u, u, 1)
                               EXCEPT !.pc = "done", !.result = "Saved"]]
    /\ fd = [d \in {1} |-> IdleDelete]
    /\ gd = [t \in {1} |-> IdleGroupDelete]
    /\ ln = [t \in {1, 2} |-> IdleLink]
    /\ rs = <<>>
    /\ rv = <<>>
    /\ InitAccess({1, 2})

NextOwners ==
    \/ \E d \in DOMAIN fd, user_id \in Callers, group_name \in OwnerGroupNames :
         confirm_delete_file(d, user_id, group_name, 1)
    \/ \E d \in DOMAIN fd : perform_file_delete_select(d)
    \/ \E d \in DOMAIN fd : perform_file_delete_delete(d)
    \/ \E d \in DOMAIN fd : perform_file_delete_update(d)
    \/ \E d \in DOMAIN fd : perform_file_delete_remote(d)
    \/ \E t \in DOMAIN gd, user_id \in Callers, group_name \in OwnerGroupNames :
         confirm_delete_group(t, user_id, group_name)
    \/ \E t \in DOMAIN gd : perform_group_delete_select(t)
    \/ \E t \in DOMAIN gd : perform_group_delete_delete(t)
    \/ \E t \in DOMAIN gd : perform_group_delete_remote(t)
    \/ \E t \in DOMAIN gd : perform_group_delete_report(t)
    \/ \E d \in DOMAIN fd, t \in DOMAIN gd : deadlock_detected(d, t)
    \/ \E t \in DOMAIN ln, user_id \in Callers, group_name \in OwnerGroupNames :
         getlink_handler(t, user_id, group_name, 1)
    \/ \E t \in DOMAIN ln, user_id \in Callers, group_name \in OwnerGroupNames :
         getgrouplink_handler(t, user_id, group_name)
    \/ \E t \in DOMAIN ln : getlink_lookup(t)
    \/ \E t \in DOMAIN ln : create_link(t, OwnCode(t))

SpecOwners == InitOwners /\ [][NextOwners]_vars

(* The confirmation specification: user 1 owns group "a" with one saved file *)
(* and names two more groups; the names sent hold the character ":" or not.  *)
(* The user sends /deletegroup with one of the names and presses "Yes,       *)
(* Delete Group", twice.                                                     *)

ConfirmNames == {<<"a">>, <<"a", ":", "b">>, <<"b">>}

InitConfirm ==
    /\ groups = {[id |-> 1, name |-> <<"a">>, owner_id |-> 1, total_files |-> 1, total_size |-> 1]}
    /\ group_seq = 1
    /\ files = {SavedFile(1)}
    /\ file_links = {}
    /\ channel = {1}
    /\ sem_value = UPLOAD_CONCURRENCY
    /\ floods = 0
    /\ up = <<>>
    /\ fd = <<>>
    /\ gd = [t \in {1, 2} |-> IdleGroupDelete]
    /\ ln = <<>>
    /\ rs = <<>>
    /\ rv = <<>>
    /\ authorized_users = SeededUsers({1, 2})
    /\ bot_settings = SeededSettings
    /\ lookup_raises = FALSE
    /\ user_data = [a \in Accounts |-> NoSession]
    /\ tx = [t \in {1, 2} |-> IdleText]
    /\ sr = <<>>
    /\ ad = <<>>

NextConfirm ==
    \/ callback_new_group(1)
    \/ \E t \in DOMAIN tx, text \in ConfirmNames : file_handler_text(t, 1, text)
    \/ \E t \in DOMAIN tx : create_new_group_insert(t)
    \/ \E t \in DOMAIN gd, group_name \in ConfirmNames :
         callback_confirm_delete_group(t, 1, DeleteGroupKeyboard(<<group_name>>))
    \/ \E t \in DOMAIN gd : perform_group_delete_select(t)
    \/ \E t \in DOMAIN gd : perform_group_delete_delete(t)
    \/ \E t \in DOMAIN gd : perform_group_delete_remote(t)
    \/ \E t \in DOMAIN gd : perform_group_delete_report(t)

SpecConfirm == InitConfirm /\ [][NextConfirm]_vars

(* The session specification: user 1 owns the empty groups "a" (id 1) and    *)
(* "b" (id 2) and sends /upload, /bulkupload and /clear, presses the buttons *)
(* of the two groups and sends three files, one of them above MAX_FILE_SIZE, *)
(* in any order and without waiting for the answers.  The storage channel    *)
(* may answer one forward with a rate limit.                                 *)

SessionSizes == {1, MAX_FILE_SIZE + 1}

InitSession ==
    /\ groups = {[id |-> g, name |-> IF g = 1 THEN "a" ELSE "b", owner_id |-> 1,
                  total_files |-> 0, total_size |-> 0] : g \in {1, 2}}
    /\ group_seq = 2
    /\ files = {}
    /\ file_links = {}
    /\ channel = {}
    /\ sem_value = UPLOAD_CONCURRENCY
    /\ floods = 1
    /\ up = [u \in 1..3 |-> IdleUpload]
    /\ fd = <<>>
    /\ gd = <<>>
    /\ ln = <<>>
    /\ rs = <<>>
    /\ rv = <<>>
    /\ InitAccess({1, 2})

NextSession ==
    \/ \E bulk \in BOOLEAN : upload_handler(1, bulk)
    \/ \E g \in {1, 2} : callback_select_group_upload(1, g)
    \/ clear_handler(1)
    \/ \E u \in DOMAIN up, size \in SessionSizes : file_handler_session(u, 1, u, size)
    \/ \E u \in DOMAIN up : process_file_upload_acquire(u)
    \/ \E u \in DOMAIN up : process_file_upload_forward_ok(u)
    \/ \E u \in DOMAIN up : process_file_upload_flood(u)
    \/ \E u \in DOMAIN up : process_file_upload_retry(u)
    \/ \E u \in DOMAIN up : process_file_upload_forward_error(u)
    \/ \E u \in DOMAIN up : process_file_upload_select(u)
    \/ \E u \in DOMAIN up : process_file_upload_insert(u)
    \/ \E u \in DOMAIN up : process_file_upload_update(u)
    \/ \E u \in DOMAIN up : process_file_upload_finish(u)

SpecSession == InitSession /\ [][NextSession]_vars

----------------------------------------------------------------------------
(* Claims about the registry *)

\* C2: in every committed state each group's total_files is the number of its
\* file rows and its total_size the sum of their file_size.
C2_AggregatesMatchRows ==
    \A g \in groups :
        /\ g.total_files = Cardinality(FilesOf(g.id))
        /\ g.total_size = SumSizes(FilesOf(g.id))

\* C9: once the DELETE of the group has committed, the message ids collected
\* for the cleanup of the channel are exactly those of the file rows the
\* cascade removed.
C9_CleanupListIsCascade ==
    \A t \in DOMAIN gd : gd[t].pc = "remote" => gd[t].message_ids = gd[t].cascaded

\* C10: the step that commits DeleteGroup leaves no File row of the group and
\* no Link to the group or to one of its files, and every code that led to
\* them resolves to NotFound; and no File row or Link of a deleted group (or of
\* a deleted file) is ever there again.
C10_GroupDeleteCascades ==
    /\ [][\A t \in DOMAIN gd :
            (gd[t].pc = "delete" /\ gd'[t].pc = "remote")
              => LET gids == {g.id : g \in SelectGroup(gd[t].user_id, gd[t].group_name)}
                     fids == {f.id : f \in {x \in files : x.group_id \in gids}}
                     codes == {l.link_code :
                                 l \in {x \in file_links :
                                          x.group_id \in gids \/ x.file_id \in fids}}
                 IN /\ gids # {}
                    /\ \A f \in files' : f.group_id \notin gids
                    /\ \A l \in file_links' : l.group_id \notin gids /\ l.file_id \notin fids
                    /\ \A c \in codes : LinkLookup(c)' = {}]_vars
    /\ [](/\ \A f \in files : f.group_id \in GroupIds
          /\ \A l \in file_links :
               /\ l.group_id # NULL => l.group_id \in GroupIds
               /\ l.file_id # NULL => l.file_id \in {f.id : f \in files})

\* C10 witness: a file link and a group link were issued, no file deletion
\* ran, the group deletion has committed with a file in its cascade, no link
\* is left and the resolution of a code has answered NotFound.
C10_Witness ==
    /\ \A t \in DOMAIN ln : ln[t].result = "Issued"
    /\ \A d \in DOMAIN fd : fd[d].pc = "idle"
    /\ \E t \in DOMAIN gd : gd[t].pc = "remote" /\ gd[t].cascaded # {}
    /\ file_links = {}
    /\ \E t \in DOMAIN rs : rs[t].result = "NotFound"

----------------------------------------------------------------------------
(* Claims about links *)

\* C11: in every state the target of every link row exists: the file of a
\* file link is a row of files, the group of a group link a row of groups.
C11_LinkTargetsExist ==
    \A l \in file_links :
        /\ l.link_type = "file" => \E f \in files : f.id = l.file_id
        /\ l.link_type = "group" => \E g \in groups : g.id = l.group_id

\* C11 witness: a link request found its target, the target was deleted
\* before the INSERT, and the INSERT was refused.
C11_Witness ==
    \E t \in DOMAIN ln :
        /\ ln[t].pc = "done" /\ ln[t].result = "Error"
        /\ \/ \E d \in DOMAIN fd : fd[d].pc \in {"remote", "done"}
           \/ \E g \in DOMAIN gd : gd[g].pc \in {"remote", "done"}

\* resolutions that have run their UPDATE of the clicks of link id
Clicked(id) ==
    {t \in DOMAIN rs : rs[t].link_data.id = id /\ rs[t].pc \notin {"idle", "select", "update"}}

\* C12: the clicks of a link equal the number of resolutions that have
\* incremented it, however they interleave, and the clicks of a link never
\* decrease while the link exists.
C12_ClicksCountResolutions ==
    /\ [](\A l \in file_links : l.clicks = Cardinality(Clicked(l.id)))
    /\ [][\A l \in file_links : \A m \in file_links' :
            m.id = l.id => m.clicks >= l.clicks]_vars

\* C12 witness: two resolutions of one code have both delivered the file and
\* the link shows two clicks.
C12_Witness ==
    \E l \in file_links :
        /\ l.clicks = 2
        /\ \A t \in DOMAIN rs : rs[t].link_code = l.link_code /\ rs[t].result = "Delivered"

\* C13: a collision of the generated code makes one more attempt and changes
\* no row; the attempt whose code is free ends the request without an error,
\* with exactly one new link row, whose code no earlier row had.
C13_CollisionRetried ==
    [][\A t \in DOMAIN ln :
         (ln[t].pc = "insert" /\ ln'[t] # ln[t])
           => \/ /\ ln'[t].pc = "insert"
                 /\ ln'[t].tries = ln[t].tries + 1
                 /\ file_links' = file_links
              \/ /\ ln'[t].pc = "done"
                 /\ ln'[t].result = "Issued"
                 /\ ln'[t].tries = ln[t].tries
                 /\ \E l \in file_links' :
                      /\ l.id = t
                      /\ l.link_code \notin {x.link_code : x \in file_links}
                      /\ file_links' = file_links \cup {l}
                      /\ l \notin file_links]_vars

\* C13 witness: a request has met one collision and then issued its link.
C13_Witness ==
    \E t \in DOMAIN ln :
        /\ ln[t].pc = "done" /\ ln[t].result = "Issued" /\ ln[t].tries = 1
        /\ \E l \in file_links : l.id = t
        /\ Cardinality({l.link_code : l \in file_links}) = 2

\* C14: a link request makes at most 5 retries.
C14_RetriesBounded ==
    \A t \in DOMAIN ln : ln[t].tries <= 5

\* C15: the resolution of a code that has no active link row answers NotFound,
\* delivers nothing and changes no row, no message of the channel and no slot
\* of the semaphore.
C15_AbsentCodeNotFound ==
    [][\A t \in DOMAIN rs :
         (rs[t].pc = "select" /\ LinkLookup(rs[t].link_code) = {} /\ rs'[t] # rs[t])
           => /\ rs'[t].pc = "done"
              /\ rs'[t].result = "NotFound"
              /\ rs'[t].delivered = {}
              /\ UNCHANGED <<groups, files, file_links, channel, sem_value>>]_vars

\* C15 witness: a code was revoked, its resolution has answered NotFound, and
\* no resolution has delivered anything.
C15_Witness ==
    \E t \in DOMAIN rs, r \in DOMAIN rv :
        /\ rs[t].pc = "done" /\ rs[t].result = "NotFound"
        /\ rv[r].result = "Revoked" /\ rv[r].link_code = rs[t].link_code
        /\ \A x \in DOMAIN rs : rs[x].result \in {"NotFound", "none"}

\* C16: a revocation removes the link with the given code when the caller
\* owns it, and then no active link has the code; otherwise it reports
\* NotFound and leaves the link rows as they are.
C16_RevokeByOwnerOnly ==
    [][\A r \in DOMAIN rv :
         rv'[r] # rv[r]
           => LET match == {l \in file_links : /\ l.link_code = rv'[r].link_code
                                                /\ l.owner_id = rv'[r].user_id}
              IN /\ file_links' = file_links \ match
                 /\ match # {} => /\ rv'[r].result = "Revoked"
                                  /\ \A l \in file_links' :
                                       ~(l.link_code = rv'[r].link_code /\ l.is_active)
                 /\ match = {} => /\ rv'[r].result = "NotFound"
                                  /\ file_links' = file_links]_vars

\* C16 witness: the revocation of a code by a caller who does not own its
\* link was refused and the link is still there and resolves.
C16_Witness ==
    \E r \in DOMAIN rv, l \in file_links :
        /\ rv[r].pc = "done" /\ rv[r].result = "NotFound"
        /\ rv[r].link_code = l.link_code /\ rv[r].user_id # l.owner_id
        /\ \E t \in DOMAIN rs : rs[t].link_code = l.link_code /\ rs[t].result = "Delivered"

----------------------------------------------------------------------------
(* Claims about deletion *)

\* the group rows after the counters of group gid went down by one file of
\* the given size
GroupsLess(gid, size) ==
    {IF g.id = gid THEN [g EXCEPT !.total_files = @ - 1, !.total_size = @ - size] ELSE g :
        g \in groups}

\* C17: a file deletion that finds no matching file answers NotFound, changes
\* no row and no message of the channel; one that found a matching file
\* removes exactly that row with its commit, takes one file and its size off
\* the counters of its group, and leaves every other file row and group as
\* it is; when the file is gone by the time of the commit, the commit changes
\* no row.
C17_DeleteFileFrame ==
    [][\A d \in DOMAIN fd :
         /\ (fd[d].pc = "select" /\ fd'[d] # fd[d]
               /\ SelectFile(fd[d].user_id, fd[d].group_name, fd[d].serial) = {})
              => /\ fd'[d].pc = "done" /\ fd'[d].result = "NotFound"
                 /\ UNCHANGED <<groups, files, file_links, channel>>
         /\ (fd[d].pc = "update" /\ fd'[d].pc = "remote")
              => IF \E f \in files : f.id = fd[d].file_data.id
                 THEN \E f \in files :
                        /\ f.id = fd[d].file_data.id
                        /\ files' = files \ {f}
                        /\ groups' = GroupsLess(f.group_id, f.file_size)
                 ELSE UNCHANGED <<groups, files, file_links>>]_vars

\* C18: the message of a deleted file is deleted from the channel only by the
\* step that follows the commit, when the file row is gone; that step is taken
\* once, and whether delete_message succeeds or fails it leaves the rows and
\* the counters as the commit left them and reports the deletion.
C18_RemoteDeleteAfterCommit ==
    [][\A d \in DOMAIN fd :
         fd'[d] # fd[d]
           => IF fd[d].pc = "remote"
              THEN /\ fd'[d].pc = "done" /\ fd'[d].result = "Deleted"
                   /\ \A f \in files : f.id # fd[d].file_data.id
                   /\ UNCHANGED <<groups, files, file_links>>
                   /\ \/ channel' = channel
                      \/ channel' = channel \ {fd[d].file_data.storage_message_id}
              ELSE channel' = channel]_vars

\* C18 witness: a file was saved and deleted, its deletion is reported, and
\* its message is still in the channel because delete_message failed.
C18_Witness ==
    /\ \E d \in DOMAIN fd : fd[d].pc = "done" /\ fd[d].result = "Deleted"
    /\ \A t \in DOMAIN gd : gd[t].pc = "idle"
    /\ \E m \in channel :
         /\ up[m].result = "Saved"
         /\ \A f \in files : f.storage_message_id # m
    /\ \A g \in groups : g.total_files = Cardinality(FilesOf(g.id))

\* C19: after the commit of a group deletion every collected message id is
\* tried, whether earlier ones failed or not; deleted_count counts the
\* messages actually removed; the report gives (deleted_count, number of
\* collected ids) with 0 <= deleted_count <= total; and none of these steps
\* changes a group, file or link row.
C19_GroupDeleteTally ==
    /\ [][\A t \in DOMAIN gd :
            (gd[t].pc = "remote" /\ gd'[t] # gd[t])
              => /\ UNCHANGED <<groups, files, file_links>>
                 /\ IF gd'[t].pc = "remote"
                    THEN \E m \in gd[t].remaining :
                           /\ gd'[t].remaining = gd[t].remaining \ {m}
                           /\ channel' \subseteq channel
                           /\ channel \ channel' \subseteq {m}
                           /\ gd'[t].deleted_count =
                                gd[t].deleted_count + Cardinality(channel \ channel')
                    ELSE /\ gd[t].remaining = {}
                         /\ gd'[t].result = "Deleted"
                         /\ gd'[t].total = Cardinality(gd[t].message_ids)
                         /\ gd'[t].deleted_count = gd[t].deleted_count
                         /\ channel' = channel]_vars
    /\ [](\A t \in DOMAIN gd :
            /\ gd[t].pc = "remote"
                 => /\ 0 <= gd[t].deleted_count
                    /\ gd[t].deleted_count <= Cardinality(gd[t].message_ids \ gd[t].remaining)
            /\ gd[t].pc = "done"
                 => /\ 0 <= gd[t].deleted_count
                    /\ gd[t].deleted_count <= gd[t].total)

\* C19 witness: a group of two files was deleted; one message was removed
\* from the channel, the other delete_message failed, and the tally is 1/2.
C19_Witness ==
    \E t \in DOMAIN gd :
        /\ gd[t].pc = "done" /\ gd[t].result = "Deleted"
        /\ gd[t].total = 2 /\ gd[t].deleted_count = 1
        /\ Cardinality(channel) = 1
        /\ groups = {} /\ files = {}

\* C20: the storage channel is called only by a coroutine that has no
\* transaction open: a message is forwarded by an upload that has not begun
\* its registration, and a message is deleted by a file deletion or a group
\* deletion whose transaction has committed, i.e. whose rows are gone.
C20_NoStoreCallInTransaction ==
    [][channel' # channel
         => \/ \E u \in DOMAIN up :
                 /\ up[u].pc = "forward" /\ up'[u].pc = "select"
                 /\ channel' = channel \cup {u}
                 /\ \A f \in files : f.id # u
                 /\ u \notin UNION {UploadsInto(g) : g \in 1..MaxGroups}
            \/ \E d \in DOMAIN fd :
                 /\ fd[d].pc = "remote" /\ fd'[d].pc = "done"
                 /\ channel' = channel \ {fd[d].file_data.storage_message_id}
                 /\ \A f \in files : f.id # fd[d].file_data.id
                 /\ d \notin UNION {DeletesIn(g) : g \in 1..MaxGroups}
            \/ \E t \in DOMAIN gd :
                 /\ gd[t].pc = "remote" /\ gd'[t].pc = "remote"
                 /\ \E m \in gd[t].remaining : channel' = channel \ {m}
                 /\ \A f \in files : f.storage_message_id \notin gd[t].cascaded]_vars

\* C20 witness: two files were saved; one was deleted by a file deletion and
\* the other with its group, and both messages have left the channel.
C20_Witness ==
    /\ \A u \in DOMAIN up : up[u].pc = "done" /\ up[u].result = "Saved"
    /\ \E d \in DOMAIN fd : fd[d].pc = "done" /\ fd[d].result = "Deleted"
    /\ \E t \in DOMAIN gd : gd[t].result = "Deleted" /\ gd[t].deleted_count = 1
    /\ channel = {}

----------------------------------------------------------------------------
(* Claims about registration and group names *)

\* C21: no two file rows share a unique_id, in whatever groups they are; the
\* INSERT of an upload whose unique_id a committed row already has ends the
\* upload with the one result RegistrationFailed, adds no file row and leaves
\* every group's total_files and total_size as they were.
C21_UniqueContentKey ==
    /\ [](\A f1 \in files, f2 \in files : f1.unique_id = f2.unique_id => f1 = f2)
    /\ [][\A u \in DOMAIN up :
            (/\ up[u].pc = "insert"
             /\ up'[u] # up[u]
             /\ \E f \in files : f.unique_id = up[u].unique_id)
              => /\ up'[u].pc = "edit_status"
                 /\ up'[u].result = "RegistrationFailed"
                 /\ files' = files
                 /\ groups' = groups]_vars

C21_Witness ==
    \E u \in DOMAIN up :
        /\ up[u].pc = "done"
        /\ up[u].result = "RegistrationFailed"
        /\ up[u].group_id \in GroupIds
        /\ \E f \in files : /\ f.unique_id = up[u].unique_id
                            /\ f.group_id # up[u].group_id

\* C22: no two groups have the same name and owner; the INSERT of a name its
\* sender already has answers Duplicate and changes no table, whichever of
\* two requests comes second; any other INSERT, a name another owner has
\* included, answers Created and adds one group with totals zero.
C22_GroupNameUniquePerOwner ==
    /\ [](\A g1 \in groups, g2 \in groups :
            (g1.name = g2.name /\ g1.owner_id = g2.owner_id) => g1 = g2)
    /\ [](\A t1 \in DOMAIN tx, t2 \in DOMAIN tx :
            (/\ t1 # t2
             /\ tx[t1].result = "Created" /\ tx[t2].result = "Created"
             /\ tx[t1].user_id = tx[t2].user_id)
              => tx[t1].group_name # tx[t2].group_name)
    /\ [][\A t \in DOMAIN tx :
            (tx[t].pc = "insert" /\ tx'[t] # tx[t])
              => IF \E g \in groups : g.name = tx[t].group_name /\ g.owner_id = tx[t].user_id
                 THEN /\ tx'[t].result = "Duplicate"
                      /\ groups' = groups
                      /\ files' = files
                      /\ file_links' = file_links
                 ELSE /\ tx'[t].result = "Created"
                      /\ \E g \in groups' :
                           /\ g \notin groups
                           /\ groups' = groups \cup {g}
                           /\ g.name = tx[t].group_name
                           /\ g.owner_id = tx[t].user_id
                           /\ g.total_files = 0
                           /\ g.total_size = 0]_vars

C22_Witness ==
    \E t1 \in DOMAIN tx, t2 \in DOMAIN tx, t3 \in DOMAIN tx :
        /\ tx[t1].result = "Created" /\ tx[t1].user_id = 1
        /\ tx[t2].result = "Created" /\ tx[t2].user_id = 2
        /\ tx[t3].result = "Duplicate" /\ tx[t3].user_id = 1
        /\ tx[t1].group_name = tx[t2].group_name
        /\ tx[t1].group_name = tx[t3].group_name

\* the names a text leaves when the blanks around it are taken away
TrimmedOf(text) ==
    {SubSeq(text, w[1], w[2]) :
        w \in {v \in (1..(Len(text) + 1)) \X (0..Len(text)) :
                  /\ v[2] >= v[1] - 1
                  /\ \A k \in 1..(v[1] - 1) : text[k] = " "
                  /\ \A k \in (v[2] + 1)..Len(text) : text[k] = " "
                  /\ v[2] >= v[1] => (text[v[1]] # " " /\ text[v[2]] # " ")}}

\* C23: a text sent as the name of a new group is refused, and neither a
\* group nor a sequence value is made, when nothing is left of it once the
\* blanks around it are gone or when what is left has more than 50
\* characters; what is left of any other text goes to the INSERT, which
\* makes the group unless its sender has one of that name; so every group
\* has a name of 1 to 50 characters.
C23_GroupNameValidated ==
    /\ [](\A g \in groups : Len(g.name) \in 1..50)
    /\ [][\A t \in DOMAIN tx :
            /\ (/\ tx[t].pc = "idle"
                /\ tx'[t] # tx[t]
                /\ is_user_authorized(tx'[t].user_id)
                /\ user_data[tx'[t].user_id].awaiting_group_name
                /\ tx'[t].text # <<>>)
                 => \E name \in TrimmedOf(tx'[t].text) :
                      IF name = <<>> \/ Len(name) > 50
                      THEN /\ tx'[t].pc = "done"
                           /\ tx'[t].result = "Invalid"
                           /\ groups' = groups
                           /\ group_seq' = group_seq
                      ELSE /\ tx'[t].pc = "insert"
                           /\ tx'[t].group_name = name
            /\ (/\ tx[t].pc = "insert"
                /\ tx'[t] # tx[t]
                /\ ~\E g \in groups : g.name = tx[t].group_name /\ g.owner_id = tx[t].user_id)
                 => \E g \in groups' \ groups : g.name = tx[t].group_name]_vars

C23_Witness ==
    \E t1 \in DOMAIN tx, t2 \in DOMAIN tx, t3 \in DOMAIN tx :
        /\ tx[t1].result = "Invalid" /\ tx[t1].text = Letters(51)
        /\ tx[t2].result = "Invalid" /\ tx[t2].text = Spaces(2)
        /\ tx[t3].result = "Created" /\ tx[t3].text = Spaces(1) \o Letters(50) \o Spaces(1)
        /\ \E g \in groups : g.name = Letters(50)

\* C24: the SELECT of a registration computes the greatest serial number of
\* the files then in the group plus 1, or 1 for a group without files; its
\* commit adds exactly one file row, with that serial number, which where no
\* file has been deleted meanwhile is the greatest in the group plus 1, and in
\* the same step raises the group's total_files by 1 and its total_size by the
\* file's size; the rows of the other files and of the other groups stay as
\* they are.
C24_SerialAndTotals ==
    [][\A u \in DOMAIN up :
         /\ (up[u].pc = "select" /\ up'[u] # up[u])
              => up'[u].next_serial =
                   Max({0} \cup {f.serial_number : f \in FilesOf(up[u].group_id)}) + 1
         /\ (up[u].pc = "update" /\ up'[u] # up[u])
              => /\ up'[u].result = "Saved"
                 /\ \E f \in files' :
                      /\ f \notin files
                      /\ files' = files \cup {f}
                      /\ f.group_id = up[u].group_id
                      /\ f.serial_number = up[u].next_serial
                      /\ f.serial_number =
                           Max({0} \cup {x.serial_number : x \in FilesOf(up[u].group_id)}) + 1
                      /\ f.file_size = up[u].file_size
                 /\ \A g \in groups :
                      IF g.id = up[u].group_id
                      THEN [g EXCEPT !.total_files = @ + 1,
                                     !.total_size = @ + up[u].file_size] \in groups'
                      ELSE g \in groups'
                 /\ Cardinality(groups') = Cardinality(groups)]_vars

C24_Witness ==
    \E g \in groups :
        /\ g.total_files = 2
        /\ {f.serial_number : f \in FilesOf(g.id)} = {1, 2}
        /\ \A u \in DOMAIN up : up[u].pc = "done" /\ up[u].result = "Saved"

----------------------------------------------------------------------------
(* Claim about the walk-through *)

\* C25: in the walk-through, when both registrations succeed: the first file
\* has serial 1 and 2,000,000 bytes and the second serial 2; the only group
\* counts 1 file and 2,000,000 bytes while it holds the first file alone, 2
\* files and 5,000,000 bytes while it holds both, and 1 file and 3,000,000
\* bytes once serial 1 is deleted; the link issued for serial 1 points at the
\* first file; a resolution of its code that delivers, delivers the first
\* file's message, and the first resolution sets clicks to 1; once the first
\* file is deleted the link is gone and a resolution of the code answers
\* NotFound.
C25_WalkThrough ==
    /\ [](\A f \in files : f.id = 1 => (f.serial_number = 1 /\ f.file_size = 2000000))
    /\ [](up[1].result = "Saved" =>
            /\ \A f \in files : f.id = 2 => (f.serial_number = 2 /\ f.file_size = 3000000)
            /\ \A l \in file_links : l.link_code = "c1" /\ l.file_id = 1 /\ l.link_type = "file"
            /\ \A t \in DOMAIN rs :
                 rs[t].result = "Delivered" => (rs[t].delivered = {1} /\ rs[t].link_data.file_id = 1)
            /\ \A g \in groups :
                 /\ {f.id : f \in files} = {1} => (g.total_files = 1 /\ g.total_size = 2000000)
                 /\ {f.id : f \in files} = {1, 2} => (g.total_files = 2 /\ g.total_size = 5000000)
                 /\ {f.id : f \in files} = {2} => (g.total_files = 1 /\ g.total_size = 3000000))
    /\ [][\A t \in DOMAIN rs :
            /\ (rs[t].pc = "update" /\ rs'[t] # rs[t]
                /\ \A o \in DOMAIN rs \ {t} : rs[o].pc = "idle")
                 => \A l \in file_links' : l.clicks = 1
            /\ (rs[t].pc = "select" /\ rs'[t] # rs[t]
                /\ up[1].result = "Saved"
                /\ ~\E f \in files : f.id = 1)
                 => (rs'[t].pc = "done" /\ rs'[t].result = "NotFound")]_vars

C25_Witness ==
    /\ up[1].result = "Saved" /\ up[2].result = "Saved"
    /\ ln[1].pc = "done" /\ ln[1].result = "Issued"
    /\ rs[1].result = "Delivered" /\ rs[1].delivered = {1}
    /\ fd[1].pc = "done" /\ fd[1].result = "Deleted"
    /\ rs[2].result = "NotFound"
    /\ \E g \in groups : g.total_files = 1 /\ g.total_size = 3000000
    /\ {f.serial_number : f \in files} = {2}

----------------------------------------------------------------------------
(* Claim about search *)

\* the substring occurs in the name, letters compared without case
Contains(name, substring) ==
    \E i \in 0..(Len(name) - Len(substring)) :
        \A j \in 1..Len(substring) : Lower(name[i + j]) = Lower(substring[j])

\* the rows of the files of a user whose name contains the query
Matching(user_id, query) ==
    {[file_name |-> f.file_name, serial_number |-> f.serial_number,
      group_name |-> g.name, file_size |-> f.file_size] :
        <<f, g>> \in {w \in files \X groups : /\ w[1].group_id = w[2].id
                                              /\ w[2].owner_id = user_id
                                              /\ Contains(w[1].file_name, query)}}

\* C26: a search that has answered has returned rows of the caller's own
\* files whose name contains the query without regard to case, and only
\* those, in the order of (group name, serial number) and at most 25 of them:
\* the first 25, or all when there are fewer; and it has said that the
\* list is cut exactly when more than 25 files match.
C26_SearchResults ==
    \A t \in DOMAIN sr :
        (sr[t].pc = "done" /\ sr[t].result \in {"Results", "NoResults"})
          => LET all == OrderRows(Matching(sr[t].user_id, sr[t].query)) IN
               /\ sr[t].results = SubSeq(all, 1, IF Len(all) < 25 THEN Len(all) ELSE 25)
               /\ sr[t].note <=> (Len(all) > 25)

----------------------------------------------------------------------------
(* Claim about the rows of file_links *)

\* C27: every link row has either a file and no group, with link_type
\* "file", or a group and no file, with link_type "group".
C27_LinkTargetMatchesType ==
    \A l \in file_links :
        \/ l.link_type = "file" /\ l.file_id # NULL /\ l.group_id = NULL
        \/ l.link_type = "group" /\ l.group_id # NULL /\ l.file_id = NULL

C27_Witness ==
    /\ \E l \in file_links : l.link_type = "file" /\ l.file_id = 1
    /\ \E l \in file_links : l.link_type = "group" /\ l.group_id = 1

----------------------------------------------------------------------------
(* Claim about the settings *)

\* C28: a caption toggle of the administrator turns caption_enabled over,
\* unless another toggle has written it since this one read it; the text the administrator sends after asking to set
\* the custom caption becomes custom_caption; and a link resolution that
\* delivers, captions the file from the settings as they are when it
\* delivers.
C28_SettingsFollowAdmin ==
    [][/\ \A t \in DOMAIN ad :
            (/\ ad[t].pc = "update" /\ ad'[t] # ad[t]
             /\ ad[t].current_val = bot_settings.caption_enabled)
              => bot_settings'.caption_enabled # bot_settings.caption_enabled
       /\ \A t \in DOMAIN tx :
            (/\ tx[t].pc = "idle" /\ tx'[t] # tx[t]
             /\ is_admin(tx'[t].user_id)
             /\ user_data[tx'[t].user_id].awaiting_caption)
              => bot_settings'.custom_caption = tx'[t].text
       /\ \A t \in DOMAIN rs :
            (rs[t].pc = "copy" /\ rs'[t].result = "Delivered")
              => rs'[t].caption =
                   IF bot_settings.caption_enabled = "1"
                   THEN <<"file_name", bot_settings.custom_caption>>
                   ELSE <<"file_name">>]_vars

----------------------------------------------------------------------------
(* Claim about access *)

\* the user is an administrator or has an active row in authorized_users
Listed(user_id) ==
    \/ user_id \in ADMIN_IDS
    \/ \E r \in authorized_users : r.user_id = user_id /\ r.is_active

\* the state a caller without access must leave alone
Store == <<groups, group_seq, files, file_links, channel, bot_settings, user_data>>

\* C29: an update of a user who at that moment is neither an administrator
\* nor active on the allow-list ends its handler at once with the answer
\* Unauthorized, whichever of group creation, upload, file deletion, group
\* deletion, link request, link resolution, revocation and search it asks for,
\* and changes no group, file, link, click counter, message of the storage
\* channel, setting or session; a handler that has answered Unauthorized does
\* nothing more; removing a user leaves them without access until they are
\* added again; and the row of an administrator is never de-activated.
C29_Unauthorized ==
    /\ [](\A r \in authorized_users : r.user_id \in ADMIN_IDS => r.is_active)
    /\ [][/\ \A t \in DOMAIN tx :
               (tx[t].pc = "idle" /\ tx'[t] # tx[t] /\ ~Listed(tx'[t].user_id))
                 => (tx'[t].pc = "done" /\ tx'[t].result = "Unauthorized" /\ UNCHANGED Store)
          /\ \A u \in DOMAIN up :
               (up[u].pc = "idle" /\ up'[u] # up[u] /\ ~Listed(1))
                 => (up'[u].pc = "done" /\ up'[u].result = "Unauthorized" /\ UNCHANGED Store)
          /\ \A d \in DOMAIN fd :
               (fd[d].pc = "idle" /\ fd'[d] # fd[d] /\ ~Listed(fd'[d].user_id))
                 => (fd'[d].pc = "done" /\ fd'[d].result = "Unauthorized" /\ UNCHANGED Store)
          /\ \A t \in DOMAIN gd :
               (gd[t].pc = "idle" /\ gd'[t] # gd[t] /\ ~Listed(gd'[t].user_id))
                 => (gd'[t].pc = "done" /\ gd'[t].result = "Unauthorized" /\ UNCHANGED Store)
          /\ \A t \in DOMAIN ln :
               (ln[t].pc = "idle" /\ ln'[t] # ln[t] /\ ~Listed(ln'[t].user_id))
                 => (ln'[t].pc = "done" /\ ln'[t].result = "Unauthorized" /\ UNCHANGED Store)
          /\ \A t \in DOMAIN rs :
               (rs[t].pc = "idle" /\ rs'[t] # rs[t] /\ ~Listed(rs'[t].user_id))
                 => (rs'[t].pc = "done" /\ rs'[t].result = "Unauthorized" /\ UNCHANGED Store)
          /\ \A t \in DOMAIN rv :
               (rv[t].pc = "idle" /\ rv'[t] # rv[t] /\ ~Listed(rv'[t].user_id))
                 => (rv'[t].pc = "done" /\ rv'[t].result = "Unauthorized" /\ UNCHANGED Store)
          /\ \A t \in DOMAIN sr :
               (sr[t].pc = "idle" /\ sr'[t] # sr[t] /\ ~Listed(sr'[t].user_id))
                 => (sr'[t].pc = "done" /\ sr'[t].result = "Unauthorized" /\ UNCHANGED Store)
          /\ \A t \in DOMAIN tx : tx[t].result = "Unauthorized" => tx'[t] = tx[t]
          /\ \A u \in DOMAIN up : up[u].result = "Unauthorized" => up'[u] = up[u]
          /\ \A d \in DOMAIN fd : fd[d].result = "Unauthorized" => fd'[d] = fd[d]
          /\ \A t \in DOMAIN gd : gd[t].result = "Unauthorized" => gd'[t] = gd[t]
          /\ \A t \in DOMAIN ln : ln[t].result = "Unauthorized" => ln'[t] = ln[t]
          /\ \A t \in DOMAIN rs : rs[t].result = "Unauthorized" => rs'[t] = rs[t]
          /\ \A t \in DOMAIN rv : rv[t].result = "Unauthorized" => rv'[t] = rv[t]
          /\ \A t \in DOMAIN sr : sr[t].result = "Unauthorized" => sr'[t] = sr[t]
          /\ (\E r \in authorized_users : r.is_active /\ r \notin authorized_users')
               => \E r \in authorized_users' :
                    /\ ~r.is_active /\ ~Listed(r.user_id)' /\ r.user_id \notin ADMIN_IDS
                    /\ authorized_users' = (authorized_users \ {[r EXCEPT !.is_active = TRUE]})
                                             \cup {r}]_vars

\* user 1 was refused a file deletion, a resolution and a revocation while
\* off the allow-list, which left the file and the link with no click, and
\* made a group once back on it
C29_Witness ==
    /\ fd[1].result = "Unauthorized"
    /\ rs[1].result = "Unauthorized"
    /\ rv[1].result = "Unauthorized"
    /\ \E f \in files : f.id = 9
    /\ \E l \in file_links : l.link_code = "c1" /\ l.clicks = 0
    /\ tx[1].result = "Created"
    /\ Listed(1)

----------------------------------------------------------------------------
(* Claim about concurrent file deletions *)

\* C30: of the file deletions that have read the same file row, one deletes
\* it and takes it off the group's counters and the others change nothing,
\* so that total_files and total_size of a group are never negative.
C30_DeletedOnce ==
    /\ [](\A g \in groups : g.total_files >= 0 /\ g.total_size >= 0)
    /\ [][\A d \in DOMAIN fd :
            (fd[d].pc = "update" /\ fd'[d] # fd[d] /\ ~fd[d].deleted)
              => groups' = groups]_vars

----------------------------------------------------------------------------
(* Claims about the registry and the storage channel *)

\* C31: the message a file row refers to was forwarded to the storage channel
\* by the upload that saved the row and is still in the channel; a message is
\* deleted from the channel only when a committed transaction has removed the
\* file row that referred to it.
C31_MessageOutlivesRow ==
    /\ [](\A f \in files : /\ f.storage_message_id \in channel
                           /\ up[f.storage_message_id].result = "Saved")
    /\ [][\A m \in channel \ channel' :
            /\ up[m].result = "Saved"
            /\ \A f \in files : f.storage_message_id # m]_vars

\* C31 witness: two files were saved; one of them was deleted and its message
\* has left the channel, the other is registered with its message in place.
C31_Witness ==
    /\ \A u \in DOMAIN up : up[u].result = "Saved"
    /\ \E d \in DOMAIN fd : fd[d].pc = "done" /\ fd[d].result = "Deleted"
    /\ Cardinality(files) = 1
    /\ channel = {f.storage_message_id : f \in files}

\* link resolutions that hold a slot of upload_semaphore: inside the async
\* with block of line 671
Delivering == {t \in DOMAIN rs : rs[t].pc \in {"copy_group", "sleep"}}

\* C32: an upload never holds more than one slot of the gate, retries
\* included; the slots held by uploads and by group-link deliveries and the
\* free slots add up to the capacity of the gate; and when no upload and no
\* delivery is under way every slot is free.
C32_SlotsConserved ==
    /\ \A u \in Uploads : Held(u) <= 1
    /\ sem_value + SumHeld(Uploads) + Cardinality(Delivering) = GateSlots
    /\ (/\ \A u \in Uploads : up[u].pc \in {"idle", "done"}
        /\ \A t \in DOMAIN rs : rs[t].pc \in {"idle", "done"})
         => sem_value = GateSlots

\* C33: every file row belongs to a group row that exists, also when the
\* upload meets the deletion of its group or goes into a group id selected
\* before the group was deleted; the upload whose registration fails leaves
\* no file row and changes no counter.
C33_FileRowsHaveGroup ==
    /\ [](\A f \in files : f.group_id \in GroupIds)
    /\ [][\A u \in DOMAIN up :
            (up'[u].result = "RegistrationFailed" /\ up[u].result # "RegistrationFailed")
              => /\ files' = files
                 /\ groups' = groups
                 /\ \A f \in files' : f.id # u]_vars

\* C33 witness: the group was deleted and both uploads failed to register:
\* as their two rows can only collide with one another, one of them met the
\* missing group row.
C33_Witness ==
    /\ \A u \in DOMAIN up : up[u].pc = "done" /\ up[u].result = "RegistrationFailed"
    /\ \E t \in DOMAIN gd : gd[t].pc = "done" /\ gd[t].result = "Deleted"
    /\ files = {}

----------------------------------------------------------------------------
(* Claims about owners *)

\* the group, file and link rows that belong to somebody else than user_id
NotOwnedBy(user_id) ==
    <<{g \in groups : g.owner_id # user_id},
      {f \in files : \E g \in groups : g.id = f.group_id /\ g.owner_id # user_id},
      {l \in file_links : l.owner_id # user_id}>>

\* C34: no step of an upload, a file deletion or a group deletion made for a
\* caller changes a group, a file or a link of another owner, whatever group
\* id or group name the caller gave.
C34_OwnerIsolation ==
    [][\A a \in Accounts :
         (\/ \E u \in DOMAIN up : up[u].user_id = a /\ up'[u] # up[u]
          \/ \E d \in DOMAIN fd : fd[d].user_id = a /\ fd'[d] # fd[d]
          \/ \E t \in DOMAIN gd : gd[t].user_id = a /\ gd'[t] # gd[t])
           => NotOwnedBy(a)' = NotOwnedBy(a)]_vars

\* the owner of the group that is the target of link l or holds its target
TargetOwners(l) ==
    {g.owner_id : g \in {x \in groups :
        IF l.link_type = "group" THEN x.id = l.group_id
        ELSE \E f \in files : f.id = l.file_id /\ f.group_id = x.id}}

\* C35: the owner of every link row is the owner of the group that is its
\* target or that holds its target file; a link request for a name under
\* which the caller owns no such file or group ends with NotFound and
\* creates no link.
C35_LinkOwnerIsTargetOwner ==
    /\ [](\A l \in file_links : TargetOwners(l) = {l.owner_id})
    /\ [][\A t \in DOMAIN ln :
            (/\ ln[t].pc = "lookup" /\ ln'[t] # ln[t]
             /\ IF ln[t].link_type = "file"
                THEN ~\E f \in files : \E g \in groups :
                        /\ g.id = f.group_id /\ g.owner_id = ln[t].user_id
                        /\ g.name = ln[t].group_name /\ f.serial_number = ln[t].serial
                ELSE ~\E g \in groups :
                        g.owner_id = ln[t].user_id /\ g.name = ln[t].group_name)
              => /\ ln'[t].pc = "done" /\ ln'[t].result = "NotFound"
                 /\ file_links' = file_links]_vars

\* C35 witness: user 2 asked for links on the file and on the group "b",
\* which only user 1 owns, and both requests ended with NotFound, while the
\* group "b" and its file are in place.
C35_Witness ==
    /\ \A t \in DOMAIN ln : ln[t].pc = "done" /\ ln[t].result = "NotFound"
    /\ \E g \in groups : g.name = "b" /\ FilesOf(g.id) # {}
    /\ \A g \in groups : g.owner_id = 1 \/ g.name = "a"
    /\ Cardinality(groups) = 3
    /\ file_links = {}

----------------------------------------------------------------------------
(* Claim about the confirmation of a group deletion *)

\* the name the user gave to /deletegroup: the callback data without the
\* word confirm_delete_group and the separator
RequestedName(callback_data) ==
    SubSeq(callback_data, 3, Len(callback_data))

\* C36: the DELETE of a confirmed group deletion removes the caller's group
\* of the name given to /deletegroup, when there is one, and no other group,
\* whatever characters the name holds.
C36_DeletesTheGroupNamed ==
    [][\A t \in DOMAIN gd :
         (gd[t].pc = "delete" /\ gd'[t] # gd[t] /\ gd[t].callback_data # <<>>)
           => /\ groups' \subseteq groups
              /\ groups \ groups' =
                   SelectGroup(gd[t].user_id, RequestedName(gd[t].callback_data))]_vars

----------------------------------------------------------------------------
(* Claim about the session *)

\* C37: when an upload finishes, saved or failed, while the user is not in
\* bulk mode, the user's selected group is cleared, and a file sent without a
\* selected group is refused and changes nothing; in bulk mode no step of an
\* upload touches the session; /clear removes the selected group and the
\* bulk flag.
C37_SelectionLifetime ==
    [][/\ \A u \in DOMAIN up :
            (up[u].pc = "edit_status" /\ up'[u].pc = "done")
              => IF user_data[up[u].user_id].is_bulk_upload
                 THEN user_data' = user_data
                 ELSE /\ user_data'[up[u].user_id].upload_group_id = NULL
                      /\ ~user_data'[up[u].user_id].is_bulk_upload
       /\ \A u \in DOMAIN up :
            (up[u].pc = "idle" /\ up'[u] # up[u])
              => IF user_data[up'[u].user_id].upload_group_id = NULL
                 THEN /\ up'[u].pc = "done" /\ up'[u].result = "NoGroupSelected"
                      /\ UNCHANGED <<groups, files, channel, sem_value, user_data>>
                 ELSE up'[u].result # "NoGroupSelected"
       /\ \A u \in DOMAIN up :
            (up'[u] # up[u] /\ up[u].pc \notin {"idle", "edit_status"})
              => user_data' = user_data
       /\ \A a \in Accounts :
            clear_handler(a) => /\ user_data'[a].upload_group_id = NULL
                                /\ ~user_data'[a].is_bulk_upload]_vars

\* C37 witness: not in bulk mode, the first file was saved, the second file
\* failed in the transfer, the third was refused for want of a selected
\* group, and nothing is selected.
C37_Witness ==
    /\ up[1].pc = "done" /\ up[1].result = "Saved"
    /\ up[2].pc = "done" /\ up[2].result = "TransferFailed"
    /\ up[3].pc = "done" /\ up[3].result = "NoGroupSelected"
    /\ user_data[1].upload_group_id = NULL
    /\ ~user_data[1].is_bulk_upload
    /\ FilesOf(1) # {} /\ FilesOf(2) = {}

----------------------------------------------------------------------------
(* Claim about a failing allow-list lookup *)

\* C38: while the lookup of the allow-list raises, an update of a user who is
\* not an administrator ends its handler at once with the answer
\* Unauthorized, even when the user has an active row, and changes no group,
\* file, link, click counter, message of the storage channel, setting or
\* session, whichever of upload, file deletion, link resolution, revocation
\* and search it asks for; an update of an administrator is never answered
\* Unauthorized.
C38_FailsClosed ==
    [][/\ \A u \in DOMAIN up :
            (up[u].pc = "idle" /\ up'[u] # up[u])
              => IF up'[u].user_id \in ADMIN_IDS
                 THEN up'[u].result # "Unauthorized"
                 ELSE lookup_raises
                        => (up'[u].pc = "done" /\ up'[u].result = "Unauthorized"
                            /\ UNCHANGED Store)
       /\ \A d \in DOMAIN fd :
            (fd[d].pc = "idle" /\ fd'[d] # fd[d])
              => IF fd'[d].user_id \in ADMIN_IDS
                 THEN fd'[d].result # "Unauthorized"
                 ELSE lookup_raises
                        => (fd'[d].pc = "done" /\ fd'[d].result = "Unauthorized"
                            /\ UNCHANGED Store)
       /\ \A t \in DOMAIN rs :
            (rs[t].pc = "idle" /\ rs'[t] # rs[t])
              => IF rs'[t].user_id \in ADMIN_IDS
                 THEN rs'[t].result # "Unauthorized"
                 ELSE lookup_raises
                        => (rs'[t].pc = "done" /\ rs'[t].result = "Unauthorized"
                            /\ UNCHANGED Store)
       /\ \A t \in DOMAIN rv :
            (rv[t].pc = "idle" /\ rv'[t] # rv[t])
              => IF rv'[t].user_id \in ADMIN_IDS
                 THEN rv'[t].result # "Unauthorized"
                 ELSE lookup_raises
                        => (rv'[t].pc = "done" /\ rv'[t].result = "Unauthorized"
                            /\ UNCHANGED Store)
       /\ \A t \in DOMAIN sr :
            (sr[t].pc = "idle" /\ sr'[t] # sr[t])
              => IF sr'[t].user_id \in ADMIN_IDS
                 THEN sr'[t].result # "Unauthorized"
                 ELSE lookup_raises
                        => (sr'[t].pc = "done" /\ sr'[t].result = "Unauthorized"
                            /\ UNCHANGED Store)]_vars

\* while the lookup raises, user 1, active on the allow-list, has been
\* refused the deletion of their file and the resolution of their link, which
\* left the file and the link with no click, and the administrator has had a
\* search answered
C38_Witness ==
    /\ lookup_raises
    /\ \E r \in authorized_users : r.user_id = 1 /\ r.is_active
    /\ fd[1].user_id = 1 /\ fd[1].result = "Unauthorized"
    /\ rs[1].user_id = 1 /\ rs[1].result = "Unauthorized"
    /\ \E f \in files : f.id = 9
    /\ \E l \in file_links : l.link_code = "c1" /\ l.clicks = 0
    /\ sr[1].user_id \in ADMIN_IDS /\ sr[1].pc = "done" /\ sr[1].result # "Unauthorized"

====
